---- MODULE Spec2Model ----
(***************************************************************************)
(* A model of the inference orchestration layer of InfiniLM:               *)
(*   - the Batcher (service/src/session/batcher.rs), thread by thread;     *)
(*   - Session / BusySession / Generator (service/src/session/mod.rs);     *)
(*   - Service and ServiceComponent (service/src/lib.rs);                  *)
(*   - the Cache, Dialog and Dispatcher they call, whose files are not     *)
(*     part of the sources at hand and are modelled from the design text.  *)
(***************************************************************************)
EXTENDS Integers, Sequences, FiniteSets, TLC

(***************************************************************************)
(* Bounds of the model.                                                    *)
(***************************************************************************)
\* items each producer thread offers to the batcher (SpecBatcher)
MaxItems == 2
\* tasks ever submitted, KV tensors ever allocated
MaxTasks == 2
MaxStorage == 3
\* cap on the length of a cache's token list
MaxTokens == 4
\* devices and layers of the tensor-parallel forward (SpecTP)
NDevices == 2
NLayers == 2
\* tensor entries are integers modulo ValueMod
ValueMod == 3

(***************************************************************************)
(* Program constants (scaled down).                                        *)
(***************************************************************************)
\* config.max_position_embeddings: the position dimension of a KV tensor
MaxSeqLen == 7
\* config.eos_token_id
Eos == 3
\* SampleArgs::default(), Service::default_sample
DefaultSample == 0

(***************************************************************************)
(* State.                                                                  *)
(***************************************************************************)
VARIABLES
    \* ---- Batcher: Mutex<(Vec<T>, bool)> and its Condvar ----
    queue,      \* the pending vector
    alive,      \* the alive flag
    \* ---- threads using the batcher (SpecBatcher) ----
    mutex,      \* the thread holding the batcher's mutex, or "free"
    bpc,        \* thread -> position in enq / deq / shutdown
    waiters,    \* consumers parked on the condvar
    nsent,      \* producer -> number of enq calls completed
    ret,        \* consumer -> the vector its last deq returned
    pushed,     \* history: items enq stored (it found the batcher alive)
    returned,   \* history: item -> number of deq results it was part of
    emptyAlive, \* history: some deq returned an empty vector while alive
    \* ---- Service, sessions, generators (Spec) ----
    service,    \* the Service value has not been dropped
    sessions,   \* slot -> Session {sample, dialog, cache} and its BusySession
    gens,       \* slot -> Generator (its task handle)
    tasks,      \* task id -> Task {cache, sample, channel}
    nextTask,   \* tasks submitted so far
    kvmem,      \* KV tensor id -> contents, one entry per position
    nextKv,     \* KV tensors allocated so far
    \* ---- the Dispatcher worker ----
    wpc,        \* "deq" | "step" | "exited"
    batch,      \* the vector the worker's last deq returned
    \* ---- observation ----
    panic,      \* "none", or the unwrap / assert that aborted the caller
    sent,       \* history: task -> tokens the dispatcher sent, in sampling order
    recv,       \* history: task -> tokens decode() returned, in order
    \* ---- the backends' forward passes ----
    tp,         \* the tensor-parallel forward: main thread and device threads
    fw,         \* a batch of requests, its batched forward and the forwards one at a time
    tk,         \* the routing matrix given to topk and what topk wrote
    dc,         \* the hidden state given to decode, its logits and the sampled tokens
    \* ---- the chat REPL (xtask) ----
    repl        \* Chatting {current, next_id, sessions} and its loop position

bvars == <<mutex, bpc, waiters, nsent, ret, pushed, returned, emptyAlive>>
svars == <<service, sessions, gens, tasks, nextTask, kvmem, nextKv, wpc, batch,
           panic, sent, recv>>
mvars == <<tp, fw, tk, dc, repl>>
vars == <<queue, alive, bvars, svars, mvars>>

(***************************************************************************)
(* Batcher, the data operations of batcher.rs.                             *)
(***************************************************************************)
\* Batcher::new: (Vec::new(), true)
BatcherNewQueue == <<>>
BatcherNewAlive == TRUE

\* enq, lines 22-24: push only while alive
EnqPush_Always(q, a, val) == Append(q, val)
EnqPush_Front(q, a, val) == IF a THEN <<val>> \o q ELSE q
EnqPush(q, a, val) == IF a THEN Append(q, val) ELSE q

\* deq, line 35: the wait_while predicate |(q, a)| q.is_empty() && *a
DeqMustWait_Never(q, a) == FALSE
DeqMustWait(q, a) == q = <<>> /\ a

\* deq, line 32: std::mem::take returns the vector ...
DeqTaken_First(q) == IF q = <<>> THEN <<>> ELSE <<Head(q)>>
DeqTaken(q) == q
\* (mutant of DeqLeft: the vector is cloned, not taken)
DeqLeft_Clone(q) == q
\* ... and leaves Vec::default() behind
DeqLeft(q) == <<>>

\* shutdown, lines 45-46
ShutdownAlive(a) == FALSE
ShutdownQueue_Keep(q) == q
ShutdownQueue(q) == <<>>

(***************************************************************************)
(* Dialog (session/dialog.rs, modelled from the design text): an ordered   *)
(* sequence of sentences, each a run of tokens.                            *)
(***************************************************************************)
RECURSIVE Flatten(_)
Flatten(d) == IF d = <<>> THEN <<>> ELSE Head(d) \o Flatten(Tail(d))

DialogNumSentences(d) == Len(d)
DialogNumTokens(d) == Len(Flatten(d))
DialogPush(d, sentence) == Append(d, sentence)
DialogRevert(d, n) == SubSeq(d, 1, n)
\* the last sentence at an even (0-based) index, i.e. the last user prompt
DialogLastPromptLen(d) ==
    IF Len(d) = 0 THEN 0
    ELSE IF Len(d) % 2 = 1 THEN Len(d[Len(d)]) ELSE Len(d[Len(d) - 1])
\* the most recent suffix fitting `len` tokens, and its base position
DialogWindow(d, len) ==
    LET all == Flatten(d)
        pos == IF Len(all) > len THEN Len(all) - len ELSE 0
    IN [tokens |-> SubSeq(all, pos + 1, Len(all)), pos |-> pos]

(***************************************************************************)
(* Cache (session/cache.rs, modelled from the design text): the token list *)
(* with the window [start, end) whose KV is valid, and the KV tensor.      *)
(***************************************************************************)
NoCache == [some |-> FALSE, tokens |-> <<>>, start |-> 0, end |-> 0, kv |-> 0]

\* Cache::new(backend, initial_tokens); kv names the tensor new_cache allocated
CacheNew(tokens, kv) ==
    [some |-> TRUE, tokens |-> tokens, start |-> 0, end |-> 0, kv |-> kv]
CacheExtend(c, tokens) == [c EXCEPT !.tokens = @ \o tokens]
CachePush(c, token) == CacheExtend(c, <<token>>)
CacheSliceTail(c, from) == SubSeq(c.tokens, from + 1, Len(c.tokens))
\* the token position the callers in session/mod.rs compare with
\* dialog.num_tokens(): the extent of the token list
CacheEnd(c) == Len(c.tokens)
CacheCachedLen(c) == c.end - c.start
CacheRevertOk(c, n) == n >= c.start
CacheRevert(c, n) ==
    [c EXCEPT !.tokens = SubSeq(@, 1, n), !.end = IF c.end < n THEN c.end ELSE n]
CacheResetWith(c, tokens, pos) ==
    [c EXCEPT !.tokens = tokens, !.start = pos, !.end = pos]
CacheCleanupBeforeStart(c) ==
    IF c.start > 0 /\ c.start <= Len(c.tokens)
    THEN [c EXCEPT !.tokens = SubSeq(@, c.start + 1, Len(@))]
    ELSE c
\* Cache::duplicate: the token list and bookkeeping are cloned; kv names the
\* tensor duplicate_cache returned
CacheDuplicate(c, kv) == [c EXCEPT !.kv = kv]

(***************************************************************************)
(* KV tensors of the backend (models/mixtral/cpu/src/infer.rs).            *)
(* A tensor is modelled by one entry per position: the token whose key and *)
(* value were written there, 0 where nothing was written.                  *)
(***************************************************************************)
Blank == 0
\* new_cache: Tensor::alloc(.., Blob::new)
NewCacheTensor == [i \in 1..MaxSeqLen |-> Blank]
\* the assertion of duplicate_cache, line 40
DuplicateCacheOk(pos) == pos <= MaxSeqLen
DuplicateCache_Whole(t, pos) == t
DuplicateCache_Empty(t, pos) == [i \in 1..MaxSeqLen |-> Blank]
\* duplicate_cache: a fresh tensor with the slice [0, pos) copied
DuplicateCache(t, pos) == [i \in 1..MaxSeqLen |-> IF i <= pos THEN t[i] ELSE Blank]
\* forward, lines 156-168: k.reform_to(k_cat), v.reform_to(v_cat) write the
\* positions [pos, pos + seq_len) of the query's own cache
ForwardWrite(t, pos, query) ==
    [i \in 1..MaxSeqLen |->
        IF i > pos /\ i <= pos + Len(query) THEN query[i - pos] ELSE t[i]]

(***************************************************************************)
(* Session (service/src/session/mod.rs) as operators on a session value.   *)
(* A message is represented by the tokens that template, normalizer and    *)
(* tokenizer (external) turn it into.                                      *)
(***************************************************************************)
NoSession ==
    [live |-> FALSE, sample |-> DefaultSample, dialog |-> <<>>, cache |-> NoCache,
     busy |-> 0]

\* From<Arc<ServiceComponent>> for Session, then Service::launch sets sample
SessionLaunch ==
    [live |-> TRUE, sample |-> DefaultSample, dialog |-> <<>>, cache |-> NoCache,
     busy |-> 0]

\* Session::dialog_pos
SessionDialogPos(sess) == DialogNumSentences(sess.dialog)

\* Session::fork; kv names the tensor duplicate_cache returns
SessionFork(sess, kv) ==
    [live |-> TRUE, sample |-> sess.sample, dialog |-> sess.dialog,
     cache |-> IF sess.cache.some THEN CacheDuplicate(sess.cache, kv) ELSE NoCache,
     busy |-> 0]

SessionRevertResult_Ge(sess, n) ==
    IF n >= DialogNumSentences(sess.dialog) THEN "ChatError" ELSE "Ok"
\* Session::revert: the value returned ...
SessionRevertResult(sess, n) ==
    IF n > DialogNumSentences(sess.dialog) THEN "ChatError" ELSE "Ok"
\* ... whether self.cache.as_mut().unwrap() aborts (line 82) ...
SessionRevertAborts(sess, n) ==
    n < DialogNumSentences(sess.dialog) /\ ~sess.cache.some
SessionRevert_OneLess(sess, n) ==
    IF n < DialogNumSentences(sess.dialog)
    THEN LET d == DialogRevert(sess.dialog, IF n > 0 THEN n - 1 ELSE 0)
             c1 == CacheRevert(sess.cache, DialogNumTokens(d))
         IN [sess EXCEPT !.dialog = d, !.cache = c1]
    ELSE sess
SessionRevert_OnlyPhysical(sess, n) ==
    IF n < DialogNumSentences(sess.dialog)
    THEN LET d == DialogRevert(sess.dialog, n)
             ok == CacheRevertOk(sess.cache, DialogNumTokens(d))
             w == DialogWindow(d, MaxSeqLen)
         IN [sess EXCEPT !.dialog = d,
                         !.cache = IF ok THEN CacheRevert(sess.cache, DialogNumTokens(d))
                                   ELSE CacheResetWith(sess.cache, w.tokens, w.pos)]
    ELSE sess
\* ... and the session afterwards
SessionRevert(sess, n) ==
    IF n < DialogNumSentences(sess.dialog)
    THEN LET d == DialogRevert(sess.dialog, n)
             last_prompt == DialogLastPromptLen(d)
             ok == CacheRevertOk(sess.cache, DialogNumTokens(d))
             c1 == IF ok THEN CacheRevert(sess.cache, DialogNumTokens(d))
                   ELSE sess.cache
             w == DialogWindow(d, MaxSeqLen)
             c2 == IF ~ok \/ CacheCachedLen(c1) < last_prompt
                   THEN CacheResetWith(c1, w.tokens, w.pos)
                   ELSE c1
         IN [sess EXCEPT !.dialog = d, !.cache = c2]
    ELSE sess

\* Session::extend, lines 102-122: get_or_insert_with, then per message
\* cache.extend and dialog.push; kv names the tensor of a cache created here
RECURSIVE ExtendLoop(_, _)
ExtendLoop(sess, msgs) ==
    IF msgs = <<>> THEN sess
    ELSE ExtendLoop([sess EXCEPT !.cache = CacheExtend(@, Head(msgs)),
                                 !.dialog = DialogPush(@, Head(msgs))],
                    Tail(msgs))

SessionExtend_Advancing(sess, msgs, kv) ==
    LET after == ExtendLoop([sess EXCEPT !.cache = IF @.some THEN @ ELSE CacheNew(<<>>, kv)],
                            msgs)
    IN [after EXCEPT !.cache.end = Len(after.cache.tokens)]
SessionExtend(sess, msgs, kv) ==
    ExtendLoop([sess EXCEPT !.cache = IF @.some THEN @ ELSE CacheNew(<<>>, kv)], msgs)

\* Session::extend, line 124: assert_eq!(cache.end(), self.dialog.num_tokens())
SessionExtendAssert(sess) == CacheEnd(sess.cache) = DialogNumTokens(sess.dialog)

\* Session::chat, line 129: self.cache.take().unwrap() aborts on None
SessionChatAborts(sess) == ~sess.cache.some
SessionChat_KeepsCache(sess, t) == [sess EXCEPT !.busy = t]
\* Session::chat: take() leaves None in the session; t names the task the
\* BusySession's handle stands for
SessionChat(sess, t) == [sess EXCEPT !.cache = NoCache, !.busy = t]

RestoreCache_DialogOnly(sess, cache) ==
    LET end == DialogNumTokens(sess.dialog)
        grew == CacheEnd(cache) > end
        d1 == IF grew THEN DialogPush(sess.dialog, CacheSliceTail(cache, end) \o <<Eos>>)
              ELSE sess.dialog
    IN [sess EXCEPT !.dialog = d1, !.cache = CacheCleanupBeforeStart(cache)]
RestoreCache_NoEos(sess, cache) ==
    LET end == DialogNumTokens(sess.dialog)
        grew == CacheEnd(cache) > end
        d1 == IF grew THEN DialogPush(sess.dialog, CacheSliceTail(cache, end))
              ELSE sess.dialog
    IN [sess EXCEPT !.dialog = d1, !.cache = CacheCleanupBeforeStart(cache)]
RestoreCache_Unread(sess, cache) ==
    LET end == DialogNumTokens(sess.dialog)
        grew == CacheEnd(cache) > end
        c1 == IF grew THEN CachePush(cache, Eos) ELSE cache
        d1 == IF grew THEN DialogPush(sess.dialog, CacheSliceTail(c1, end + 1))
              ELSE sess.dialog
    IN [sess EXCEPT !.dialog = d1, !.cache = CacheCleanupBeforeStart(c1)]
\* Session::restore_cache
RestoreCache(sess, cache) ==
    LET end == DialogNumTokens(sess.dialog)
        grew == CacheEnd(cache) > end
        c1 == IF grew THEN CachePush(cache, Eos) ELSE cache
        d1 == IF grew THEN DialogPush(sess.dialog, CacheSliceTail(c1, end))
              ELSE sess.dialog
    IN [sess EXCEPT !.dialog = d1, !.cache = CacheCleanupBeforeStart(c1)]

(***************************************************************************)
(* Task and its handle (session/task.rs and dispatch.rs, modelled from the *)
(* design text): the cache, the sample arguments and the output channel.   *)
(* rx: the receiving handle exists. The sending side lives in the Task     *)
(* itself, which is held by the batcher's vector or by the worker's batch. *)
(***************************************************************************)
NoTask ==
    [cache |-> NoCache, sample |-> DefaultSample, chan |-> <<>>, rx |-> FALSE]

\* ServiceComponent::infer(sample, cache): the task handed to the batcher
TaskNew(sample, cache) ==
    [cache |-> cache, sample |-> sample, chan |-> <<>>, rx |-> TRUE]

\* TaskHandle::take followed by the drop of the handle: the cache leaves the
\* task and the channel's receiver is closed
TaskTaken(task) == NoTask

(***************************************************************************)
(* SpecBatcher: producer, consumer and stopper threads on one Batcher.     *)
(* Each call locks the mutex, runs its body and unlocks; Condvar::wait     *)
(* releases the mutex atomically with parking and re-acquires it on wake.  *)
(***************************************************************************)
Producers == {"p1", "p2"}
Consumers == {"c1", "c2"}
Stopper == "stop"
Threads == Producers \cup Consumers \cup {Stopper}
Items == Producers \X (1..MaxItems)

RECURSIVE CountIn(_, _)
CountIn(q, x) ==
    IF q = <<>> THEN 0
    ELSE (IF Head(q) = x THEN 1 ELSE 0) + CountIn(Tail(q), x)

SeqToSet(q) == {q[i] : i \in 1..Len(q)}

BInit ==
    /\ queue = BatcherNewQueue
    /\ alive = BatcherNewAlive
    /\ mutex = "free"
    /\ bpc = [t \in Threads |-> "idle"]
    /\ waiters = {}
    /\ nsent = [p \in Producers |-> 0]
    /\ ret = [c \in Consumers |-> <<>>]
    /\ pushed = {}
    /\ returned = [i \in Items |-> 0]
    /\ emptyAlive = FALSE

SessionIds == {1, 2}
GenIds == {1, 2, 3}
TaskIds == 1..MaxTasks
KvIds == 1..MaxStorage
Vocab == {1, 2, Eos}
\* what a message or a prompt can be tokenized to
Tokenized == {<<1>>, <<2, 1>>}

\* Service::load: the component, no session yet, the worker spawned
SInit ==
    /\ service = TRUE
    /\ sessions = [s \in SessionIds |-> NoSession]
    /\ gens = [g \in GenIds |-> 0]
    /\ tasks = [t \in TaskIds |-> NoTask]
    /\ nextTask = 0
    /\ kvmem = [k \in KvIds |-> NewCacheTensor]
    /\ nextKv = 0
    /\ wpc = "deq"
    /\ batch = <<>>
    /\ panic = "none"
    /\ sent = [t \in TaskIds |-> <<>>]
    /\ recv = [t \in TaskIds |-> <<>>]

\* no forward pass of a backend is under way
TpIdle ==
    [main |-> "idle", spawned |-> 0, joined |-> 0,
     pc |-> [i \in 0..(NDevices - 1) |-> "unspawned"],
     layer |-> [i \in 0..(NDevices - 1) |-> 0],
     x |-> [i \in 0..(NDevices - 1) |-> 0],
     x0 |-> 0,
     w |-> [i \in 0..(NDevices - 1) |-> 0],
     log |-> [i \in 0..(NDevices - 1) |-> <<>>],
     paired |-> <<>>]

\* no forward of a CPU backend has been asked for
NoResult ==
    [status |-> "none", x |-> <<>>, x1 |-> <<>>, kv |-> <<>>, att |-> <<>>,
     wrote |-> <<>>]
FwIdle == [impl |-> "none", reqs |-> <<>>, batch |-> NoResult, alone |-> <<>>]

\* topk has not been called
TkIdle == [pc |-> "idle", rows |-> <<>>, k |-> 0, weights |-> <<>>, indices |-> <<>>]

\* decode has not been called
DcIdle == [pc |-> "idle", metas |-> <<>>, hidden |-> <<>>, logits |-> <<>>, tokens |-> <<>>]

\* chat() has not been entered
ReplIdle == [pc |-> "idle", current |-> 0, next_id |-> 0, ids |-> {}, reused |-> FALSE]

MInit == tp = TpIdle /\ fw = FwIdle /\ tk = TkIdle /\ dc = DcIdle /\ repl = ReplIdle

Init == BInit /\ SInit /\ MInit

\* self.queue.lock().unwrap() of enq, deq and shutdown
Lock(t) ==
    /\ bpc[t] = "idle"
    /\ mutex = "free"
    /\ t \in Producers => nsent[t] < MaxItems
    /\ mutex' = t
    /\ bpc' = [bpc EXCEPT ![t] = "locked"]
    /\ UNCHANGED <<queue, alive, waiters, nsent, ret, pushed, returned, emptyAlive>>
    /\ UNCHANGED <<svars, mvars>>

EnqBody_NoNotify(p) ==
    /\ bpc[p] = "locked"
    /\ mutex = p
    /\ LET item == <<p, nsent[p] + 1>> IN
        /\ queue' = EnqPush(queue, alive, item)
        /\ pushed' = IF queue' # queue THEN pushed \cup {item} ELSE pushed
    /\ nsent' = [nsent EXCEPT ![p] = @ + 1]
    /\ bpc' = [bpc EXCEPT ![p] = "idle"]
    /\ mutex' = "free"
    /\ UNCHANGED <<alive, waiters, ret, returned, emptyAlive>>
    /\ UNCHANGED <<svars, mvars>>
\* enq body: push if alive, notify_one, drop the guard
EnqBody(p) ==
    /\ bpc[p] = "locked"
    /\ mutex = p
    /\ LET item == <<p, nsent[p] + 1>> IN
        /\ queue' = EnqPush(queue, alive, item)
        /\ pushed' = IF queue' # queue THEN pushed \cup {item} ELSE pushed
    /\ nsent' = [nsent EXCEPT ![p] = @ + 1]
    /\ \/ /\ waiters = {}
          /\ bpc' = [bpc EXCEPT ![p] = "idle"]
          /\ UNCHANGED waiters
       \/ \E w \in waiters :
            /\ waiters' = waiters \ {w}
            /\ bpc' = [bpc EXCEPT ![p] = "idle", ![w] = "woken"]
    /\ mutex' = "free"
    /\ UNCHANGED <<alive, ret, returned, emptyAlive>>
    /\ UNCHANGED <<svars, mvars>>

DeqCheck_KeepsLock(c) ==
    /\ bpc[c] = "locked"
    /\ mutex = c
    /\ mutex' = IF DeqMustWait(queue, alive) THEN "free" ELSE c
    /\ IF DeqMustWait(queue, alive)
       THEN /\ waiters' = waiters \cup {c}
            /\ bpc' = [bpc EXCEPT ![c] = "waiting"]
            /\ UNCHANGED <<queue, ret, returned, emptyAlive>>
       ELSE /\ ret' = [ret EXCEPT ![c] = DeqTaken(queue)]
            /\ queue' = DeqLeft(queue)
            /\ returned' = [i \in Items |-> returned[i] + CountIn(ret'[c], i)]
            /\ emptyAlive' = (emptyAlive \/ (ret'[c] = <<>> /\ alive))
            /\ bpc' = [bpc EXCEPT ![c] = "idle"]
            /\ UNCHANGED waiters
    /\ UNCHANGED <<alive, nsent, pushed>>
    /\ UNCHANGED <<svars, mvars>>

\* deq: one evaluation of the wait_while predicate under the mutex;
\* either park on the condvar (releasing the mutex) or take the vector
DeqCheck(c) ==
    /\ bpc[c] = "locked"
    /\ mutex = c
    /\ mutex' = "free"
    /\ IF DeqMustWait(queue, alive)
       THEN /\ waiters' = waiters \cup {c}
            /\ bpc' = [bpc EXCEPT ![c] = "waiting"]
            /\ UNCHANGED <<queue, ret, returned, emptyAlive>>
       ELSE /\ ret' = [ret EXCEPT ![c] = DeqTaken(queue)]
            /\ queue' = DeqLeft(queue)
            /\ returned' = [i \in Items |-> returned[i] + CountIn(ret'[c], i)]
            /\ emptyAlive' = (emptyAlive \/ (ret'[c] = <<>> /\ alive))
            /\ bpc' = [bpc EXCEPT ![c] = "idle"]
            /\ UNCHANGED waiters
    /\ UNCHANGED <<alive, nsent, pushed>>
    /\ UNCHANGED <<svars, mvars>>

\* a spurious wake-up of a parked consumer (Condvar permits it)
SpuriousWake(c) ==
    /\ bpc[c] = "waiting"
    /\ c \in waiters
    /\ waiters' = waiters \ {c}
    /\ bpc' = [bpc EXCEPT ![c] = "woken"]
    /\ UNCHANGED <<queue, alive, mutex, nsent, ret, pushed, returned, emptyAlive>>
    /\ UNCHANGED <<svars, mvars>>

\* a woken consumer re-acquires the mutex inside wait_while
Relock(c) ==
    /\ bpc[c] = "woken"
    /\ mutex = "free"
    /\ mutex' = c
    /\ bpc' = [bpc EXCEPT ![c] = "locked"]
    /\ UNCHANGED <<queue, alive, waiters, nsent, ret, pushed, returned, emptyAlive>>
    /\ UNCHANGED <<svars, mvars>>

ShutdownBody_NotifyOne ==
    /\ bpc[Stopper] = "locked"
    /\ mutex = Stopper
    /\ alive' = ShutdownAlive(alive)
    /\ queue' = ShutdownQueue(queue)
    /\ \/ /\ waiters = {}
          /\ bpc' = [bpc EXCEPT ![Stopper] = "done"]
          /\ UNCHANGED waiters
       \/ \E w \in waiters :
            /\ waiters' = waiters \ {w}
            /\ bpc' = [bpc EXCEPT ![Stopper] = "done", ![w] = "woken"]
    /\ mutex' = "free"
    /\ UNCHANGED <<nsent, ret, pushed, returned, emptyAlive>>
    /\ UNCHANGED <<svars, mvars>>
\* shutdown body: alive = false, clear, notify_all, drop the guard
ShutdownBody ==
    /\ bpc[Stopper] = "locked"
    /\ mutex = Stopper
    /\ alive' = ShutdownAlive(alive)
    /\ queue' = ShutdownQueue(queue)
    /\ bpc' = [t \in Threads |->
                 IF t = Stopper THEN "done"
                 ELSE IF t \in waiters THEN "woken" ELSE bpc[t]]
    /\ waiters' = {}
    /\ mutex' = "free"
    /\ UNCHANGED <<nsent, ret, pushed, returned, emptyAlive>>
    /\ UNCHANGED <<svars, mvars>>

BNext ==
    \/ \E t \in Threads : Lock(t)
    \/ \E p \in Producers : EnqBody(p)
    \/ \E c \in Consumers : DeqCheck(c)
    \/ \E c \in Consumers : SpuriousWake(c)
    \/ \E c \in Consumers : Relock(c)
    \/ ShutdownBody

SpecBatcher == Init /\ [][BNext]_vars

\* fair scheduling of the threads that are inside a call: a thread holding
\* the mutex runs its body and releases it, and a woken consumer that
\* contends for the mutex gets it. Nothing obliges an idle thread to call.
SpecBatcherFair ==
    /\ SpecBatcher
    /\ \A p \in Producers : WF_vars(EnqBody(p))
    /\ \A c \in Consumers : WF_vars(DeqCheck(c)) /\ SF_vars(Relock(c))
    /\ WF_vars(ShutdownBody)

(***************************************************************************)
(* SpecTP: Transformer::forward of the tensor-parallel backend             *)
(* (models/llama/nvidia-gpu-distributed/src/lib.rs 255-351): the calling   *)
(* thread spawns one thread per device inside thread::scope and joins      *)
(* them; each thread runs, layer by layer, self_att, all_reduce, mlp,      *)
(* all_reduce on its shard x of the residual. A tensor is one integer      *)
(* modulo ValueMod; the weights of a shard are what makes its partial      *)
(* product differ from the other shards'.                                  *)
(* tp.log and tp.paired are history: the collectives a device issued, and  *)
(* the tags that met in each completed collective.                         *)
(***************************************************************************)
Devices == 0..(NDevices - 1)

RECURSIVE SumDev(_, _)
SumDev(f, S) ==
    IF S = {} THEN 0
    ELSE LET i == CHOOSE j \in S : TRUE IN f[i] + SumDev(f, S \ {i})

\* the product a shard computes from its slice of the weights: the output
\* projection of its attention heads (self_att) or its slice of the MLP
PartAtt(w, i, l, x) == (w[i] * (x + l + 1)) % ValueMod
PartMlp(w, i, l, x) == (w[i] * x * x + l + i) % ValueMod

Beta_All(i) == 1
\* self_att line 535 and mlp line 574: accumulate onto x only on shard 0
Beta(i) == IF i = 0 THEN 1 ELSE 0

\* kernels.mat_mul(x, beta, o, w_o, 1.): x = beta * x + o * w_o
SelfAttOut(w, i, l, x) == (Beta(i) * x + PartAtt(w, i, l, x)) % ValueMod
\* kernels.mlp(x, x1, gate_up, .., 1., i == 0): x = [i == 0] * x + down(..)
MlpOut(w, i, l, x) == (Beta(i) * x + PartMlp(w, i, l, x)) % ValueMod

\* comm.all_reduce(x, None, dt, ncclSum, stream): every rank ends with the sum
AllReduceSum(xs) == [i \in Devices |-> SumDev(xs, Devices) % ValueMod]

\* the same layers on a single device: the residual plus the whole product
RECURSIVE RefForward(_, _, _)
RefForward(w, l, x) ==
    IF l = NLayers THEN x
    ELSE LET a == (x + SumDev([i \in Devices |-> PartAtt(w, i, l, x)], Devices)) % ValueMod
             b == (a + SumDev([i \in Devices |-> PartMlp(w, i, l, a)], Devices)) % ValueMod
         IN RefForward(w, l + 1, b)

\* forward is entered with the embedded tokens broadcast to every device
\* (token_embed, lines 180-196) and some weights
TpStart(x0, w) ==
    [TpIdle EXCEPT !.main = "spawning", !.x = [i \in Devices |-> x0], !.x0 = x0, !.w = w]

TInit ==
    /\ BInit /\ SInit
    /\ \E x0 \in 0..(ValueMod - 1), w \in [Devices -> 1..(ValueMod - 1)] :
          tp = TpStart(x0, w)
    /\ fw = FwIdle /\ tk = TkIdle /\ dc = DcIdle /\ repl = ReplIdle

\* s.spawn(..) for device tp.spawned; collect() spawns all before any join
TpSpawn ==
    /\ tp.main = "spawning"
    /\ LET i == tp.spawned IN
        tp' = [tp EXCEPT !.pc[i] = IF NLayers = 0 THEN "done" ELSE "att",
                         !.spawned = i + 1,
                         !.main = IF i + 1 = NDevices THEN "joining" ELSE "spawning"]
    /\ UNCHANGED <<queue, alive, bvars, svars, fw, tk, dc, repl>>

\* self.self_att(..) followed by comm.all_reduce(..) on device i
TpSelfAtt(i) ==
    /\ tp.pc[i] = "att"
    /\ tp' = [tp EXCEPT !.x[i] = SelfAttOut(tp.w, i, tp.layer[i], tp.x[i]),
                        !.pc[i] = "ar_att",
                        !.log[i] = Append(@, <<tp.layer[i], "att">>)]
    /\ UNCHANGED <<queue, alive, bvars, svars, fw, tk, dc, repl>>

\* self.mlp(..) followed by comm.all_reduce(..) on device i
TpMlp(i) ==
    /\ tp.pc[i] = "mlp"
    /\ tp' = [tp EXCEPT !.x[i] = MlpOut(tp.w, i, tp.layer[i], tp.x[i]),
                        !.pc[i] = "ar_mlp",
                        !.log[i] = Append(@, <<tp.layer[i], "mlp">>)]
    /\ UNCHANGED <<queue, alive, bvars, svars, fw, tk, dc, repl>>

\* a device that has issued a collective and waits in it
InCollective(i) == tp.pc[i] \in {"ar_att", "ar_mlp"}

\* the collective completes once every rank has issued its call of the same
\* ordinal; every rank then holds the sum and goes on
TpAllReduce ==
    /\ \A i \in Devices : InCollective(i)
    /\ \A i, j \in Devices : Len(tp.log[i]) = Len(tp.log[j])
    /\ LET summed == AllReduceSum(tp.x)
           after(i) == IF tp.pc[i] = "ar_att" THEN "mlp"
                       ELSE IF tp.layer[i] + 1 = NLayers THEN "done" ELSE "att"
           layer(i) == IF tp.pc[i] = "ar_mlp" THEN tp.layer[i] + 1 ELSE tp.layer[i]
       IN tp' = [tp EXCEPT !.x = summed,
                           !.pc = [i \in Devices |-> after(i)],
                           !.layer = [i \in Devices |-> layer(i)],
                           !.paired = Append(@, {tp.log[i][Len(tp.log[i])] : i \in Devices})]
    /\ UNCHANGED <<queue, alive, bvars, svars, fw, tk, dc, repl>>

JoinReady_Always(pcs, j) == TRUE
\* t.join(): returns when the thread of device j has finished
JoinReady(pcs, j) == pcs[j] = "done"

\* .map(|t| t.join().unwrap()), in spawn order
TpJoin ==
    /\ tp.main = "joining"
    /\ JoinReady(tp.pc, tp.joined)
    /\ tp' = [tp EXCEPT !.joined = @ + 1,
                        !.main = IF tp.joined + 1 = NDevices THEN "returned" ELSE "joining"]
    /\ UNCHANGED <<queue, alive, bvars, svars, fw, tk, dc, repl>>

TpNext ==
    \/ TpSpawn
    \/ \E i \in Devices : TpSelfAtt(i)
    \/ \E i \in Devices : TpMlp(i)
    \/ TpAllReduce
    \/ TpJoin

SpecTP == TInit /\ [][TpNext]_vars

\* the calling thread and every spawned thread keep running
SpecTPFair ==
    /\ SpecTP
    /\ WF_vars(TpSpawn) /\ WF_vars(TpJoin) /\ WF_vars(TpAllReduce)
    /\ \A i \in Devices : WF_vars(TpSelfAtt(i)) /\ WF_vars(TpMlp(i))

(***************************************************************************)
(* SpecForward: the batched forward of the CPU backends, forward of        *)
(* models/mixtral/cpu/src/infer.rs and update of transformer-cpu/src/      *)
(* lib.rs. A tensor of nt rows is a sequence of nt integers modulo         *)
(* ValueMod, one per token of the concatenated batch; the KV tensor of a   *)
(* request holds, per layer, one entry per position. The kernels work row  *)
(* by row and are fixed functions here. A batch is forwarded as a whole    *)
(* and then each of its requests alone, from the same caches.              *)
(***************************************************************************)
\* a forward takes at most as many requests as the worker has tasks
MaxReqs == MaxTasks
Layers == 1..NLayers
\* the tokens a request brings to one forward (possibly none)
Queries == {<<>>, <<1>>, <<2>>, <<1, 2>>, <<2, 2>>}

\* the KV tensor of a request that has pos tokens cached, every layer alike
ReqCache(pos, c) ==
    [l \in Layers |-> [p \in 1..MaxSeqLen |-> IF p <= pos THEN c ELSE Blank]]

\* a QueryContext with a cache, or a Request of transformer-cpu
CachedReqs ==
    {[tokens |-> q, pos |-> p, cached |-> TRUE, kv |-> ReqCache(p, c)] :
        q \in Queries, p \in {0, 1}, c \in {1, 2}}
\* a QueryContext whose cache(layer) is None
UncachedReqs ==
    {[tokens |-> q, pos |-> 0, cached |-> FALSE, kv |-> ReqCache(0, 1)] : q \in Queries}

\* a request whose KV tensor still holds, beyond its pos cached tokens, what
\* an earlier forward wrote there (revert moves the extent and clears nothing)
StaleCache(pos, c, old) ==
    [l \in Layers |-> [p \in 1..MaxSeqLen |-> IF p <= pos THEN c ELSE old]]
StaleReqs ==
    {[tokens |-> q, pos |-> p, cached |-> TRUE, kv |-> StaleCache(p, 1, 2)] :
        q \in {<<1>>, <<1, 2>>}, p \in {0, 1}}

BatchesOf(R) == UNION {[1..n -> R] : n \in 1..MaxReqs}

\* Request::seq_len, Request::att_len
SeqLenOf(r) == Len(r.tokens)
AttLenOf(r) == r.pos + SeqLenOf(r)

\* rows of the batch that precede request i (req += seq_len; split(1, &seq_len))
RECURSIVE RowsBefore(_, _)
RowsBefore(reqs, i) ==
    IF i = 1 THEN 0 ELSE RowsBefore(reqs, i - 1) + SeqLenOf(reqs[i - 1])
\* nt
NumRows(reqs) == RowsBefore(reqs, Len(reqs) + 1)
OwnRows(reqs, i) ==
    (RowsBefore(reqs, i) + 1)..(RowsBefore(reqs, i) + SeqLenOf(reqs[i]))
ReqOfRow(reqs, r) == CHOOSE i \in 1..Len(reqs) : r \in OwnRows(reqs, i)

\* gather / token_embed: one embedded row per token of the batch, in order
Embed(tok) == tok % ValueMod
Gather(reqs) ==
    [r \in 1..NumRows(reqs) |->
        LET i == ReqOfRow(reqs, r)
        IN Embed(reqs[i].tokens[r - RowsBefore(reqs, i)])]
\* pos.extend(request.pos..(request.pos + len)): the position of every row
PosRows(reqs) ==
    [r \in 1..NumRows(reqs) |->
        LET i == ReqOfRow(reqs, r) IN reqs[i].pos + (r - RowsBefore(reqs, i) - 1)]

\* the row-wise kernels
RmsNorm(x, l) == (x + l) % ValueMod
Rope(x, p) == (x + p) % ValueMod
OProj(x, o) == (x + 2 * o) % ValueMod
MlpRow(x, x1) == (x + x1 * x1 + 1) % ValueMod

RECURSIVE SumCells(_, _)
SumCells(t, n) == IF n = 0 THEN 0 ELSE t[n] + SumCells(t, n - 1)
Attend_WholeCache(q, t, att_len) == (q + SumCells(t, MaxSeqLen)) % ValueMod
\* softmax(q k^T) v of one row over the first att_len positions of the cache
Attend(q, t, att_len) == (q + SumCells(t, att_len)) % ValueMod

\* the state a forward starts its layers from
ForwardStart(reqs) ==
    [status |-> "ok", x |-> Gather(reqs), x1 |-> Gather(reqs),
     kv |-> [i \in 1..Len(reqs) |-> reqs[i].kv], att |-> <<>>, wrote |-> <<>>]

\* infer.rs 143-190, one request of the loop: its keys and values go to its
\* cache at [pos, pos + seq_len), its attention result to its own slice o of x1
MixAttend(s, reqs, q, l, i) ==
    LET r == reqs[i]
        off == RowsBefore(reqs, i)
        t == ForwardWrite(s.kv[i][l], r.pos, SubSeq(q, off + 1, off + SeqLenOf(r)))
    IN IF ~r.cached
       THEN s
       ELSE [s EXCEPT !.kv[i][l] = t,
                      !.x1 = [row \in DOMAIN s.x1 |->
                                 IF row \in OwnRows(reqs, i)
                                 THEN Attend(q[row], t, AttLenOf(r))
                                 ELSE s.x1[row]],
                      !.wrote = Append(@, <<l, i, OwnRows(reqs, i)>>)]

RECURSIVE MixAttLoop(_, _, _, _, _)
MixAttLoop(s, reqs, q, l, i) ==
    IF i > Len(reqs) THEN s
    ELSE MixAttLoop(MixAttend(s, reqs, q, l, i), reqs, q, l, i + 1)

\* one layer of the row-wise part after the attention loop: output
\* projection onto the residual, post norm, MLP (dense or routed) onto the
\* residual; att keeps x1 as the attention loop left it
AfterAttention(a, l) ==
    LET x == [r \in DOMAIN a.x |-> OProj(a.x[r], a.x1[r])]
        p == [r \in DOMAIN x |-> RmsNorm(x[r], l)]
    IN [a EXCEPT !.x = [r \in DOMAIN x |-> MlpRow(x[r], p[r])],
                 !.x1 = p,
                 !.att = Append(@, a.x1)]

\* infer.rs 120-242, one layer
MixLayer(s, reqs, l) ==
    LET x1 == [r \in DOMAIN s.x |-> RmsNorm(s.x[r], l)]
        pos == PosRows(reqs)
        q == [r \in DOMAIN x1 |-> Rope(x1[r], pos[r])]
    IN AfterAttention(MixAttLoop([s EXCEPT !.x1 = x1], reqs, q, l, 1), l)

RECURSIVE MixLayers(_, _, _)
MixLayers(s, reqs, l) ==
    IF l > NLayers THEN s ELSE MixLayers(MixLayer(s, reqs, l), reqs, l + 1)

\* MixtralCPU::forward
MixForward(reqs) == MixLayers(ForwardStart(reqs), reqs, 1)

\* transformer-cpu lib.rs 138-188, one request of the loop. q, k and v are
\* sliced by req_slice and k, v go to the cache at [pos, pos + seq_len);
\* x2 and x1 are not sliced: x2 of nt rows is reshaped to seq_len rows and
\* reformed to x1 reshaped to seq_len rows. Where seq_len # nt a reshape
\* that checks the element count panics (checked); one that does not views
\* the leading seq_len rows.
UpdAttend(s, reqs, q, l, i, checked) ==
    LET r == reqs[i]
        off == RowsBefore(reqs, i)
        n == SeqLenOf(r)
        t == ForwardWrite(s.kv[i][l], r.pos, SubSeq(q, off + 1, off + n))
    IN IF s.status # "ok" THEN s
       ELSE IF n # NumRows(reqs) /\ checked
       THEN [s EXCEPT !.kv[i][l] = t, !.status = "panic"]
       ELSE [s EXCEPT !.kv[i][l] = t,
                      !.x1 = [row \in DOMAIN s.x1 |->
                                 IF row \in 1..n
                                 THEN Attend(q[off + row], t, AttLenOf(r))
                                 ELSE s.x1[row]],
                      !.wrote = Append(@, <<l, i, 1..n>>)]

RECURSIVE UpdAttLoop(_, _, _, _, _, _)
UpdAttLoop(s, reqs, q, l, i, checked) ==
    IF i > Len(reqs) THEN s
    ELSE UpdAttLoop(UpdAttend(s, reqs, q, l, i, checked), reqs, q, l, i + 1, checked)

\* lib.rs 116-212, one layer
UpdLayer(s, reqs, l, checked) ==
    LET x1 == [r \in DOMAIN s.x |-> RmsNorm(s.x[r], l)]
        pos == PosRows(reqs)
        q == [r \in DOMAIN x1 |-> Rope(x1[r], pos[r])]
        a == UpdAttLoop([s EXCEPT !.x1 = x1], reqs, q, l, 1, checked)
    IN IF s.status # "ok" THEN s
       ELSE IF a.status # "ok" THEN a
       ELSE AfterAttention(a, l)

RECURSIVE UpdLayers(_, _, _, _)
UpdLayers(s, reqs, l, checked) ==
    IF l > NLayers THEN s
    ELSE UpdLayers(UpdLayer(s, reqs, l, checked), reqs, l + 1, checked)

\* Transformer::update
Update(reqs, checked) == UpdLayers(ForwardStart(reqs), reqs, 1, checked)

\* decode: final norm and LM head of the last row of a request; sample with
\* temperature 0: the arg max of its logits. 0 stands for no token.
LmHead(x) == (2 * x + 1) % ValueMod
Greedy(logits) == logits + 1
Sampled(out, reqs, i) ==
    IF out.status # "ok" \/ SeqLenOf(reqs[i]) = 0 THEN 0
    ELSE Greedy(LmHead(out.x[RowsBefore(reqs, i) + SeqLenOf(reqs[i])]))

FInit ==
    /\ BInit /\ SInit
    /\ tp = TpIdle /\ tk = TkIdle /\ dc = DcIdle /\ repl = ReplIdle
    /\ \/ \E reqs \in BatchesOf(CachedReqs \cup UncachedReqs) :
            fw = [FwIdle EXCEPT !.impl = "mixtral", !.reqs = reqs]
       \/ \E reqs \in BatchesOf(CachedReqs) :
            fw = [FwIdle EXCEPT !.impl = "transformer-cpu", !.reqs = reqs]

\* the batches of a forward that follows a revert: requests with a stale
\* tail in their cache next to requests with a clean one
FrameReqs ==
    StaleReqs \cup {r \in CachedReqs : r.tokens \in {<<>>, <<2>>} /\ r.kv = ReqCache(r.pos, 2)}
FrInit ==
    /\ BInit /\ SInit
    /\ tp = TpIdle /\ tk = TkIdle /\ dc = DcIdle /\ repl = ReplIdle
    /\ \/ \E reqs \in BatchesOf(FrameReqs \cup {r \in UncachedReqs : r.tokens = <<1>>}) :
            fw = [FwIdle EXCEPT !.impl = "mixtral", !.reqs = reqs]
       \/ \E reqs \in BatchesOf(FrameReqs) :
            fw = [FwIdle EXCEPT !.impl = "transformer-cpu", !.reqs = reqs]

\* the request to be forwarded alone next, as a batch of one
NextAlone == <<fw.reqs[Len(fw.alone) + 1]>>

\* forward over the whole batch
MixForwardBatch ==
    /\ fw.impl = "mixtral" /\ fw.batch = NoResult
    /\ fw' = [fw EXCEPT !.batch = MixForward(fw.reqs)]
    /\ UNCHANGED <<queue, alive, bvars, svars, tp, tk, dc, repl>>

\* forward over one request of the batch, with the cache it had before
MixForwardAlone ==
    /\ fw.impl = "mixtral" /\ fw.batch # NoResult
    /\ Len(fw.alone) < Len(fw.reqs)
    /\ fw' = [fw EXCEPT !.alone = Append(@, MixForward(NextAlone))]
    /\ UNCHANGED <<queue, alive, bvars, svars, tp, tk, dc, repl>>

\* update over the whole batch
UpdateBatch ==
    /\ fw.impl = "transformer-cpu" /\ fw.batch = NoResult
    /\ \E checked \in BOOLEAN : fw' = [fw EXCEPT !.batch = Update(fw.reqs, checked)]
    /\ UNCHANGED <<queue, alive, bvars, svars, tp, tk, dc, repl>>

\* update over one request of the batch, with the cache it had before
UpdateAlone ==
    /\ fw.impl = "transformer-cpu" /\ fw.batch # NoResult
    /\ Len(fw.alone) < Len(fw.reqs)
    /\ \E checked \in BOOLEAN :
          fw' = [fw EXCEPT !.alone = Append(@, Update(NextAlone, checked))]
    /\ UNCHANGED <<queue, alive, bvars, svars, tp, tk, dc, repl>>

ForwardNext ==
    \/ MixForwardBatch
    \/ MixForwardAlone
    \/ UpdateBatch
    \/ UpdateAlone

SpecForward == FInit /\ [][ForwardNext]_vars
\* the same passes over the batches that follow a revert
SpecFrame == FrInit /\ [][ForwardNext]_vars

(***************************************************************************)
(* SpecTopk: topk of models/mixtral/cpu/src/infer.rs (305-344), which      *)
(* picks the experts of every token from the routing matrix. A row of the  *)
(* matrix is a function from 1..dim to weights; the indices topk writes    *)
(* count from 0 as in the source.                                          *)
(***************************************************************************)
\* experts a token is routed among (the row length of the routing matrix)
NExperts == 3
\* ids the REPL hands out before /create and /fork are no longer followed
MaxIds == 4
RouteRows == [1..NExperts -> {0, 1, 2}]
\* routing matrices of one or two tokens
Routes == UNION {[1..n -> RouteRows] : n \in {1, 2}}
\* the matrix of test_topk, lines 352-354
TestRoutes == << <<0, 2, 0, 0, 0, 0, 1, 0>>, <<3, 0, 0, 0, 4, 0, 0, 0>> >>

CmpBefore_Ascending(a, b) == a <= b
\* Ord for WithIndex, line 326: total_cmp reversed, the larger data first;
\* a may stand before b in a sorted vector
CmpBefore(a, b) == a >= b

\* vec.sort_unstable(), line 337: every order of the indices of line that is
\* sorted by cmp; elements that compare equal may come in any order
RECURSIVE SortedOrders(_, _)
SortedOrders(line, left) ==
    IF left = {} THEN {<<>>}
    ELSE UNION {{<<i>> \o rest : rest \in SortedOrders(line, left \ {i})} :
                   i \in {j \in left : \A m \in left : CmpBefore(line[j], line[m])}}

\* &vec[..k], line 338
RowTops(line, k) == {SubSeq(o, 1, k) : o \in SortedOrders(line, DOMAIN line)}

\* the loop over token_i: one choice of top per row
RECURSIVE AllTops(_, _, _)
AllTops(rows, k, i) ==
    IF i > Len(rows) THEN {<<>>}
    ELSE {<<t>> \o rest : t \in RowTops(rows[i], k), rest \in AllTops(rows, k, i + 1)}

\* lines 339-342: weight[token_i * k + top_i] = top[top_i].data and
\* indices[token_i * k + top_i] = top[top_i].idx
TopkWeights(rows, tops) ==
    [i \in 1..Len(rows) |-> [j \in 1..Len(tops[i]) |-> rows[i][tops[i][j]]]]
TopkIndices(rows, tops) ==
    [i \in 1..Len(rows) |-> [j \in 1..Len(tops[i]) |-> tops[i][j] - 1]]

KInit ==
    /\ BInit /\ SInit
    /\ tp = TpIdle /\ fw = FwIdle /\ dc = DcIdle /\ repl = ReplIdle
    /\ \/ \E rows \in Routes, k \in 0..(NExperts + 1) :
            tk = [TkIdle EXCEPT !.pc = "input", !.rows = rows, !.k = k]
       \/ tk = [TkIdle EXCEPT !.pc = "input", !.rows = TestRoutes, !.k = 2]

\* topk(logits, k, weight, indices); &vec[..k] panics where k exceeds dim
Topk ==
    /\ tk.pc = "input"
    /\ IF tk.k > Len(tk.rows[1])
       THEN tk' = [tk EXCEPT !.pc = "panic"]
       ELSE \E tops \in AllTops(tk.rows, tk.k, 1) :
               tk' = [tk EXCEPT !.pc = "done",
                                !.weights = TopkWeights(tk.rows, tops),
                                !.indices = TopkIndices(tk.rows, tops)]
    /\ UNCHANGED <<queue, alive, bvars, svars, tp, fw, dc, repl>>

TopkNext == Topk

SpecTopk == KInit /\ [][TopkNext]_vars

(***************************************************************************)
(* SpecDecode: decode and sample of a backend (models/mixtral/cpu/src/     *)
(* infer.rs; the distributed backend does the same on device 0). The       *)
(* hidden state has one row per query token of the batch, the logits one   *)
(* row per token to decode.                                                *)
(***************************************************************************)
\* SampleArgs a request may carry: the default and one other setting
SampleArgsOf == {DefaultSample, 1}
\* DecodingMeta and SampleMeta of one request
Metas ==
    {[num_query |-> nq, num_decode |-> nd, args |-> a] :
        nq \in 0..2, nd \in 0..2, a \in SampleArgsOf}
MetaBatches ==
    UNION {[1..n -> {m \in Metas : m.num_decode <= m.num_query}] : n \in 0..MaxReqs}

RECURSIVE NumQueryBefore(_, _)
NumQueryBefore(metas, i) ==
    IF i = 1 THEN 0 ELSE NumQueryBefore(metas, i - 1) + metas[i - 1].num_query
RECURSIVE NumDecodeBefore(_, _)
NumDecodeBefore(metas, i) ==
    IF i = 1 THEN 0 ELSE NumDecodeBefore(metas, i - 1) + metas[i - 1].num_decode

\* hidden states of nt rows
HiddenStates(nt) ==
    {[r \in 1..nt |-> (h0 + r * step) % ValueMod] :
        h0 \in 0..(ValueMod - 1), step \in 0..(ValueMod - 1)}

DInit ==
    /\ BInit /\ SInit
    /\ tp = TpIdle /\ fw = FwIdle /\ tk = TkIdle /\ repl = ReplIdle
    /\ \E metas \in MetaBatches :
          \E hidden \in HiddenStates(NumQueryBefore(metas, Len(metas) + 1)) :
             dc = [DcIdle EXCEPT !.pc = "input", !.metas = metas, !.hidden = hidden]

RECURSIVE SelectRows_First(_, _, _)
SelectRows_First(metas, i, before) ==
    IF i > Len(metas) THEN <<>>
    ELSE [j \in 1..metas[i].num_decode |-> before + j]
            \o SelectRows_First(metas, i + 1, before + metas[i].num_query)
\* DecodingMeta::select: the rows of the hidden state that are decoded, the
\* last num_decode of the num_query rows of every request, in request order;
\* they are moved to the front of x and the range of them is returned
RECURSIVE SelectRows(_, _, _)
SelectRows(metas, i, before) ==
    IF i > Len(metas) THEN <<>>
    ELSE [j \in 1..metas[i].num_decode |->
             before + metas[i].num_query - metas[i].num_decode + j]
            \o SelectRows(metas, i + 1, before + metas[i].num_query)

\* decode: select, then (unless the range is empty, which gives a tensor of
\* no rows) final norm and LM head of every selected row
ModelDecode ==
    /\ dc.pc = "input"
    /\ LET rows == SelectRows(dc.metas, 1, 0)
       IN dc' = [dc EXCEPT !.pc = "decoded",
                           !.logits = [k \in 1..Len(rows) |-> LmHead(dc.hidden[rows[k]])]]
    /\ UNCHANGED <<queue, alive, bvars, svars, tp, fw, tk, repl>>

RECURSIVE ExpandArgs_OfFirst(_, _)
ExpandArgs_OfFirst(metas, i) ==
    IF i > Len(metas) THEN <<>>
    ELSE [j \in 1..metas[i].num_decode |-> metas[1].args] \o ExpandArgs_OfFirst(metas, i + 1)
\* args.flat_map(|meta| repeat(meta.args).take(meta.num_decode))
RECURSIVE ExpandArgs(_, _)
ExpandArgs(metas, i) ==
    IF i > Len(metas) THEN <<>>
    ELSE [j \in 1..metas[i].num_decode |-> metas[i].args] \o ExpandArgs(metas, i + 1)

\* kernels.sample(temperature, top_p, top_k, row): the token drawn from one
\* row of logits; the arg max under the default arguments, and a choice that
\* the arguments shift otherwise
KernelSample(args, logits) ==
    IF args = DefaultSample THEN Greedy(logits) ELSE Greedy((logits + args) % ValueMod)

\* sample: the i-th expanded argument samples row i of the logits
ModelSample ==
    /\ dc.pc = "decoded"
    /\ LET args == ExpandArgs(dc.metas, 1)
       IN dc' = [dc EXCEPT !.pc = "sampled",
                           !.tokens = [i \in 1..Len(args) |->
                                          KernelSample(args[i], dc.logits[i])]]
    /\ UNCHANGED <<queue, alive, bvars, svars, tp, fw, tk, repl>>

DecodeNext ==
    \/ ModelDecode
    \/ ModelSample

SpecDecode == DInit /\ [][DecodeNext]_vars

(***************************************************************************)
(* SpecRepl: the chat REPL of xtask/src/chat.rs, Chatting {current,        *)
(* next_id, sessions}. Of the registry only its keys are kept here (the    *)
(* Session values are the sessions of Spec); reused records that an insert *)
(* found its key present, that is, replaced a live session. One turn of    *)
(* the loop is the step at its top followed by one command or input.       *)
(***************************************************************************)
\* ids a caller may type, existing or not
ReplIds == 0..MaxIds

RInit ==
    /\ BInit /\ SInit
    /\ tp = TpIdle /\ fw = FwIdle /\ tk = TkIdle /\ dc = DcIdle
    /\ repl = [ReplIdle EXCEPT !.pc = "top"]

NextFree_Keep(ids, n) == n
\* lines 89-91: while self.sessions.contains_key(&self.next_id) { next_id += 1 }
RECURSIVE NextFree(_, _)
NextFree(ids, n) == IF n \in ids THEN NextFree(ids, n + 1) ELSE n

\* HashMap::insert(id, ..): a present key has its session replaced
ReplInsert(r, id) == [r EXCEPT !.ids = @ \cup {id}, !.reused = @ \/ id \in r.ids]
\* current = next_id; next_id += 1; sessions.insert(current, ..)
ReplNew(r) ==
    ReplInsert([r EXCEPT !.current = r.next_id, !.next_id = r.next_id + 1], r.next_id)

\* the top of the loop, lines 79-94: a current id that is not registered is
\* replaced by some registered id (the first of the map's iteration), or, in
\* an empty registry, gets a launched session
ReplTop ==
    /\ repl.pc = "top"
    /\ IF repl.current \in repl.ids
       THEN repl' = [repl EXCEPT !.pc = "prompt"]
       ELSE IF repl.ids # {}
       THEN \E id \in repl.ids : repl' = [repl EXCEPT !.pc = "prompt", !.current = id]
       ELSE LET r == ReplInsert(repl, repl.current)
            IN repl' = [r EXCEPT !.pc = "prompt", !.next_id = NextFree(r.ids, r.next_id)]
    /\ UNCHANGED <<queue, alive, bvars, svars, tp, fw, tk, dc>>

\* /create
ReplCreate ==
    /\ repl.pc = "prompt" /\ repl.next_id < MaxIds
    /\ repl' = [ReplNew(repl) EXCEPT !.pc = "top"]
    /\ UNCHANGED <<queue, alive, bvars, svars, tp, fw, tk, dc>>

\* /fork: self.session() unwraps the current session
ReplFork ==
    /\ repl.pc = "prompt" /\ repl.next_id < MaxIds
    /\ repl' = IF repl.current \in repl.ids
               THEN [ReplNew(repl) EXCEPT !.pc = "top"]
               ELSE [repl EXCEPT !.pc = "panic"]
    /\ UNCHANGED <<queue, alive, bvars, svars, tp, fw, tk, dc>>

\* /fork n
ReplForkOf(n) ==
    /\ repl.pc = "prompt" /\ repl.next_id < MaxIds
    /\ repl' = IF n \in repl.ids
               THEN [ReplNew(repl) EXCEPT !.pc = "top"]
               ELSE [repl EXCEPT !.pc = "top"]
    /\ UNCHANGED <<queue, alive, bvars, svars, tp, fw, tk, dc>>

\* /switch n
ReplSwitch(n) ==
    /\ repl.pc = "prompt"
    /\ repl' = IF n # repl.current /\ n \in repl.ids
               THEN [repl EXCEPT !.pc = "top", !.current = n]
               ELSE [repl EXCEPT !.pc = "top"]
    /\ UNCHANGED <<queue, alive, bvars, svars, tp, fw, tk, dc>>

\* /drop: assert!(self.sessions.remove(&self.current).is_some())
ReplDrop ==
    /\ repl.pc = "prompt"
    /\ repl' = IF repl.current \in repl.ids
               THEN [repl EXCEPT !.pc = "top", !.ids = @ \ {repl.current}]
               ELSE [repl EXCEPT !.pc = "panic"]
    /\ UNCHANGED <<queue, alive, bvars, svars, tp, fw, tk, dc>>

\* /drop n
ReplDropOf(n) ==
    /\ repl.pc = "prompt"
    /\ repl' = [repl EXCEPT !.pc = "top", !.ids = @ \ {n}]
    /\ UNCHANGED <<queue, alive, bvars, svars, tp, fw, tk, dc>>

\* /args ..: print_args and the setters go through session() / session_mut()
ReplArgs ==
    /\ repl.pc = "prompt"
    /\ repl' = [repl EXCEPT !.pc = IF repl.current \in repl.ids THEN "top" ELSE "panic"]
    /\ UNCHANGED <<queue, alive, bvars, svars, tp, fw, tk, dc>>

\* an input that is not a command: infer, through session_mut(); the
\* registry's keys stay as they are
ReplInfer ==
    /\ repl.pc = "prompt"
    /\ repl' = [repl EXCEPT !.pc = IF repl.current \in repl.ids THEN "top" ELSE "panic"]
    /\ UNCHANGED <<queue, alive, bvars, svars, tp, fw, tk, dc>>

\* /list, /help, an unknown command or an empty line: nothing is changed
ReplList ==
    /\ repl.pc = "prompt"
    /\ repl' = [repl EXCEPT !.pc = "top"]
    /\ UNCHANGED <<queue, alive, bvars, svars, tp, fw, tk, dc>>

\* /exit
ReplExit ==
    /\ repl.pc = "prompt"
    /\ repl' = [repl EXCEPT !.pc = "exited"]
    /\ UNCHANGED <<queue, alive, bvars, svars, tp, fw, tk, dc>>

ReplNext ==
    \/ ReplTop
    \/ ReplCreate
    \/ ReplFork
    \/ \E n \in ReplIds : ReplForkOf(n)
    \/ \E n \in ReplIds : ReplSwitch(n)
    \/ ReplDrop
    \/ \E n \in ReplIds : ReplDropOf(n)
    \/ ReplArgs
    \/ ReplInfer
    \/ ReplList
    \/ ReplExit

SpecRepl == RInit /\ [][ReplNext]_vars

(***************************************************************************)
(* C1: every item enq stored while the batcher was alive is part of        *)
(* exactly one deq result or still pending (never lost, never duplicated)  *)
(* unless a shutdown cleared it; nothing else is ever returned; and every  *)
(* deq that returns hands over the whole pending vector and leaves the     *)
(* queue empty, so an item goes to the first deq that takes the queue      *)
(* after its enq.                                                          *)
(***************************************************************************)
C1_ExactlyOnce ==
    \A i \in Items :
        /\ returned[i] + CountIn(queue, i) <= 1
        /\ (i \in pushed /\ alive) => returned[i] + CountIn(queue, i) = 1
        /\ i \notin pushed => returned[i] + CountIn(queue, i) = 0

C1_TakesAll ==
    \A c \in Consumers :
        (bpc[c] = "locked" /\ bpc'[c] = "idle") => (ret'[c] = queue /\ queue' = <<>>)

\* C1: exactly-once delivery of every stored item, and deq takes the whole vector
C1_Theorem == []C1_ExactlyOnce /\ [][C1_TakesAll]_vars

\* two items of different producers came back in one deq, each exactly once
C1_Witness ==
    \E c \in Consumers :
        /\ Len(ret[c]) = 2
        /\ ret[c][1][1] # ret[c][2][1]
        /\ \A k \in 1..2 : ret[c][k] \in pushed /\ returned[ret[c][k]] = 1
        /\ alive

(***************************************************************************)
(* Spec: one Service, its sessions and generators on the callers' side,    *)
(* and the Dispatcher worker. Batcher calls are taken as atomic here (each *)
(* runs under the mutex); SpecBatcher has their interleavings.             *)
(***************************************************************************)
Holders_ServiceOnly(svc, ss, gs) == IF svc THEN 1 ELSE 0
Holders_NoGenerators(svc, ss, gs) ==
    (IF svc THEN 1 ELSE 0) + Cardinality({s \in SessionIds : ss[s].live})
\* holders of the Arc<ServiceComponent>: the Service, every Session, every Generator
Holders(svc, ss, gs) ==
    (IF svc THEN 1 ELSE 0) + Cardinality({s \in SessionIds : ss[s].live})
        + Cardinality({g \in GenIds : gs[g] # 0})

\* Drop for ServiceComponent, run when the last holder goes: handle.stop(),
\* which shuts the batcher down
DropComponent(svc, ss, gs) ==
    IF Holders(svc, ss, gs) = 0
    THEN /\ alive' = ShutdownAlive(alive)
         /\ queue' = ShutdownQueue(queue)
    ELSE UNCHANGED <<queue, alive>>

\* the channel's sender exists while the batcher or the worker holds the task
TxOpen(t) == t \in SeqToSet(queue) \/ t \in SeqToSet(batch)

\* the KV tensor of a destroyed cache is released
KvRelease(mem, c) == IF c.some THEN [mem EXCEPT ![c.kv] = NewCacheTensor] ELSE mem

LowestFree(s) == ~sessions[s].live /\ \A r \in SessionIds : r < s => sessions[r].live

\* Service::launch
Launch(s) ==
    /\ panic = "none" /\ service
    /\ LowestFree(s)
    /\ sessions' = [sessions EXCEPT ![s] = SessionLaunch]
    /\ UNCHANGED <<queue, alive, bvars, mvars, service, gens, tasks, nextTask, kvmem, nextKv,
                   wpc, batch, panic, sent, recv>>

\* Session::fork into a new session
Fork(s, t) ==
    /\ panic = "none"
    /\ sessions[s].live /\ sessions[s].busy = 0
    /\ LowestFree(t)
    /\ IF sessions[s].cache.some
       THEN /\ nextKv < MaxStorage
            /\ LET c == sessions[s].cache
                   pos == CacheCachedLen(c)
               IN IF DuplicateCacheOk(pos)
                  THEN /\ nextKv' = nextKv + 1
                       /\ kvmem' = [kvmem EXCEPT ![nextKv'] = DuplicateCache(kvmem[c.kv], pos)]
                       /\ sessions' = [sessions EXCEPT ![t] = SessionFork(sessions[s], nextKv')]
                       /\ UNCHANGED panic
                  ELSE /\ panic' = "duplicate_cache assert"
                       /\ UNCHANGED <<nextKv, kvmem, sessions>>
       ELSE /\ sessions' = [sessions EXCEPT ![t] = SessionFork(sessions[s], 0)]
            /\ UNCHANGED <<nextKv, kvmem, panic>>
    /\ UNCHANGED <<queue, alive, bvars, mvars, service, gens, tasks, nextTask, wpc, batch, sent, recv>>

\* Session::extend, for callers whose messages keep the token list within cap
ExtendUpTo(s, msgs, cap) ==
    /\ panic = "none"
    /\ sessions[s].live /\ sessions[s].busy = 0
    /\ sessions[s].cache.some \/ nextKv < MaxStorage
    /\ LET fresh == ~sessions[s].cache.some
           kv == IF fresh THEN nextKv + 1 ELSE 0
           after == SessionExtend(sessions[s], msgs, kv)
       IN /\ Len(after.cache.tokens) <= cap
          /\ sessions' = [sessions EXCEPT ![s] = after]
          /\ nextKv' = IF fresh THEN nextKv + 1 ELSE nextKv
          /\ kvmem' = IF fresh THEN [kvmem EXCEPT ![kv] = NewCacheTensor] ELSE kvmem
          /\ panic' = IF SessionExtendAssert(after) THEN "none" ELSE "extend assert_eq"
    /\ UNCHANGED <<queue, alive, bvars, mvars, service, gens, tasks, nextTask, wpc, batch, sent, recv>>

Extend(s, msgs) == ExtendUpTo(s, msgs, MaxTokens)

\* Session::chat: the cache moves into a Task, the Task into the batcher
Chat(s) ==
    /\ panic = "none"
    /\ sessions[s].live /\ sessions[s].busy = 0
    /\ IF SessionChatAborts(sessions[s])
       THEN /\ panic' = "chat unwrap"
            /\ UNCHANGED <<queue, sessions, tasks, nextTask>>
       ELSE /\ nextTask < MaxTasks
            /\ nextTask' = nextTask + 1
            /\ queue' = EnqPush(queue, alive, nextTask')
            /\ tasks' = [tasks EXCEPT ![nextTask'] =
                            TaskNew(sessions[s].sample, sessions[s].cache)]
            /\ sessions' = [sessions EXCEPT ![s] = SessionChat(@, nextTask')]
            /\ UNCHANGED panic
    /\ UNCHANGED <<alive, bvars, mvars, service, gens, kvmem, nextKv, wpc, batch,
                   sent, recv>>

ReceiveNewest(t) ==
    /\ tasks[t].chan # <<>>
    /\ recv' = [recv EXCEPT ![t] = Append(@, tasks[t].chan[Len(tasks[t].chan)])]
    /\ tasks' = [tasks EXCEPT ![t].chan = SubSeq(@, 1, Len(@) - 1)]
\* ServiceComponent::decode on a handle: the next token of the channel
\* (end of stream, None, changes nothing)
Receive(t) ==
    /\ tasks[t].chan # <<>>
    /\ recv' = [recv EXCEPT ![t] = Append(@, Head(tasks[t].chan))]
    /\ tasks' = [tasks EXCEPT ![t].chan = Tail(@)]

\* BusySession::decode
Decode(s) ==
    /\ panic = "none"
    /\ sessions[s].live /\ sessions[s].busy # 0
    /\ Receive(sessions[s].busy)
    /\ UNCHANGED <<queue, alive, bvars, mvars, service, sessions, gens, nextTask, kvmem, nextKv,
                   wpc, batch, panic, sent>>

\* Drop for BusySession: restore_cache(handle.take())
DropBusy(s) ==
    /\ panic = "none"
    /\ sessions[s].live /\ sessions[s].busy # 0
    /\ LET t == sessions[s].busy IN
        /\ sessions' = [sessions EXCEPT
                           ![s] = [RestoreCache(@, tasks[t].cache) EXCEPT !.busy = 0]]
        /\ tasks' = [tasks EXCEPT ![t] = TaskTaken(@)]
        /\ sent' = [sent EXCEPT ![t] = <<>>]
        /\ recv' = [recv EXCEPT ![t] = <<>>]
    /\ UNCHANGED <<queue, alive, bvars, mvars, service, gens, nextTask, kvmem, nextKv, wpc,
                   batch, panic>>

\* Session::revert
Revert(s, n) ==
    /\ panic = "none"
    /\ sessions[s].live /\ sessions[s].busy = 0
    /\ n <= DialogNumSentences(sessions[s].dialog) + 1
    /\ IF SessionRevertAborts(sessions[s], n)
       THEN /\ panic' = "revert unwrap"
            /\ UNCHANGED sessions
       ELSE /\ sessions' = [sessions EXCEPT ![s] = SessionRevert(@, n)]
            /\ UNCHANGED panic
    /\ UNCHANGED <<queue, alive, bvars, mvars, service, gens, tasks, nextTask, kvmem, nextKv,
                   wpc, batch, sent, recv>>

\* a Session is dropped (its Arc<ServiceComponent> with it)
DropSession(s) ==
    /\ panic = "none"
    /\ sessions[s].live /\ sessions[s].busy = 0
    /\ sessions' = [sessions EXCEPT ![s] = NoSession]
    /\ kvmem' = KvRelease(kvmem, sessions[s].cache)
    /\ DropComponent(service, sessions', gens)
    /\ UNCHANGED <<bvars, mvars, service, gens, tasks, nextTask, nextKv, wpc, batch,
                   panic, sent, recv>>

\* the Service value is dropped
DropService ==
    /\ panic = "none" /\ service
    /\ service' = FALSE
    /\ DropComponent(FALSE, sessions, gens)
    /\ UNCHANGED <<bvars, mvars, sessions, gens, tasks, nextTask, kvmem, nextKv, wpc, batch,
                   panic, sent, recv>>

\* Service::generate, Generator::new
Generate(g, prompt) ==
    /\ panic = "none" /\ service
    /\ gens[g] = 0
    /\ nextTask < MaxTasks /\ nextKv < MaxStorage
    /\ nextTask' = nextTask + 1
    /\ nextKv' = nextKv + 1
    /\ kvmem' = [kvmem EXCEPT ![nextKv'] = NewCacheTensor]
    /\ queue' = EnqPush(queue, alive, nextTask')
    /\ tasks' = [tasks EXCEPT ![nextTask'] =
                    TaskNew(DefaultSample, CacheNew(prompt, nextKv'))]
    /\ gens' = [gens EXCEPT ![g] = nextTask']
    /\ UNCHANGED <<alive, bvars, mvars, service, sessions, wpc, batch, panic, sent, recv>>

\* Generator::decode
GenDecode(g) ==
    /\ panic = "none"
    /\ gens[g] # 0
    /\ Receive(gens[g])
    /\ UNCHANGED <<queue, alive, bvars, mvars, service, sessions, gens, nextTask, kvmem, nextKv,
                   wpc, batch, panic, sent>>

DropGen_KeepsHandle(g) ==
    /\ panic = "none"
    /\ gens[g] # 0
    /\ gens' = [gens EXCEPT ![g] = 0]
    /\ DropComponent(service, sessions, gens')
    /\ UNCHANGED <<bvars, mvars, service, sessions, tasks, nextTask, kvmem, nextKv, wpc, batch,
                   panic, sent, recv>>
\* Drop for Generator: let _ = self.handle.take()
DropGen(g) ==
    /\ panic = "none"
    /\ gens[g] # 0
    /\ tasks' = [tasks EXCEPT ![gens[g]] = TaskTaken(@)]
    /\ kvmem' = KvRelease(kvmem, tasks[gens[g]].cache)
    /\ sent' = [sent EXCEPT ![gens[g]] = <<>>]
    /\ recv' = [recv EXCEPT ![gens[g]] = <<>>]
    /\ gens' = [gens EXCEPT ![g] = 0]
    /\ DropComponent(service, sessions, gens')
    /\ UNCHANGED <<bvars, mvars, service, sessions, nextTask, nextKv, wpc, batch,
                   panic>>

(***************************************************************************)
(* The Dispatcher worker (session/dispatch.rs, modelled from the design    *)
(* text): deq, one fused forward + decode + sample over the batch, route   *)
(* the tokens, hand the surviving tasks back to the batcher.               *)
(***************************************************************************)
\* the tokens task c contributes to this iteration's forward: its outstanding
\* ones, [end, len(tokens)); a caught-up task contributes none of its own
QueryTokens(c) == SubSeq(c.tokens, c.end - c.start + 1, Len(c.tokens))

\* the sampled token may extend the token list only below the model's cap
CanGrow(c) == Len(c.tokens) + 1 < MaxTokens

StepTask_SendsEos(st, t, tok) ==
    LET task == st.tasks[t]
        c == task.cache
    IN IF ~task.rx \/ ~c.some
       THEN st
       ELSE LET query == QueryTokens(c)
                c1 == [c EXCEPT !.end = c.end + Len(query)]
                mem == ForwardWrite(st.kvmem[c.kv], c.end - c.start, query)
            IN [st EXCEPT !.tasks[t].cache = CachePush(c1, tok),
                          !.tasks[t].chan = Append(@, tok),
                          !.kvmem[c.kv] = mem,
                          !.queue = EnqPush(@, alive, t),
                          !.sent[t] = Append(@, tok)]
StepTask_NoAdvance(st, t, tok) ==
    LET task == st.tasks[t]
        c == task.cache
    IN IF ~task.rx \/ ~c.some
       THEN st
       ELSE LET query == QueryTokens(c)
                mem == ForwardWrite(st.kvmem[c.kv], c.end - c.start, query)
            IN IF tok = Eos
               THEN [st EXCEPT !.kvmem[c.kv] = mem]
               ELSE [st EXCEPT !.tasks[t].cache = CachePush(c, tok),
                               !.tasks[t].chan = Append(@, tok),
                               !.kvmem[c.kv] = mem,
                               !.queue = EnqPush(@, alive, t),
                               !.sent[t] = Append(@, tok)]
\* one task of the batch; st carries tasks, kvmem, queue and sent through the batch
StepTask(st, t, tok) ==
    LET task == st.tasks[t]
        c == task.cache
    IN IF ~task.rx \/ ~c.some
       THEN \* the channel is closed or the cache was taken back: the task is dropped
            st
       ELSE LET query == QueryTokens(c)
                c1 == [c EXCEPT !.end = c.end + Len(query)]
                mem == ForwardWrite(st.kvmem[c.kv], c.end - c.start, query)
            IN IF tok = Eos
               THEN \* end of stream: nothing is appended or sent, the task ends
                    [st EXCEPT !.tasks[t].cache = c1, !.kvmem[c.kv] = mem]
               ELSE [st EXCEPT !.tasks[t].cache = CachePush(c1, tok),
                               !.tasks[t].chan = Append(@, tok),
                               !.kvmem[c.kv] = mem,
                               !.queue = EnqPush(@, alive, t),
                               !.sent[t] = Append(@, tok)]

RECURSIVE StepBatch(_, _, _, _)
StepBatch(st, b, toks, i) ==
    IF i > Len(b) THEN st
    ELSE \* the state after task i is computed once and carried on
         CHOOSE r \in {StepBatch(s, b, toks, i + 1) :
                          s \in {StepTask(st, b[i], toks[i])}} : TRUE

\* tasks = batcher.deq(); an empty result ends the loop
WorkerDeq ==
    /\ wpc = "deq"
    /\ ~DeqMustWait(queue, alive)
    /\ batch' = DeqTaken(queue)
    /\ queue' = DeqLeft(queue)
    /\ wpc' = IF batch' = <<>> THEN "exited" ELSE "step"
    /\ UNCHANGED <<alive, bvars, mvars, service, sessions, gens, tasks, nextTask, kvmem, nextKv,
                   panic, sent, recv>>

\* the positions [pos, pos + seq_len) task c's query is written to lie within
\* the KV tensor new_cache allocated (slice_cat, infer.rs line 156)
QueryFits(c) == CacheCachedLen(c) + Len(QueryTokens(c)) <= MaxSeqLen
Overrun == \E t \in SeqToSet(batch) :
              tasks[t].rx /\ tasks[t].cache.some /\ ~QueryFits(tasks[t].cache)

\* one iteration over the batch
WorkerStep(V) ==
    /\ wpc = "step"
    /\ ~Overrun
    /\ \E toks \in [1..Len(batch) -> V] :
        /\ \A i \in 1..Len(batch) :
            LET task == tasks[batch[i]] IN
                (~task.rx \/ ~task.cache.some \/ ~CanGrow(task.cache)) => toks[i] = Eos
        /\ \E st \in {StepBatch([tasks |-> tasks, kvmem |-> kvmem, queue |-> queue,
                                  sent |-> sent], batch, toks, 1)} :
              /\ tasks' = st.tasks
              /\ kvmem' = st.kvmem
              /\ queue' = st.queue
              /\ sent' = st.sent
    /\ batch' = <<>>
    /\ wpc' = "deq"
    /\ UNCHANGED <<alive, bvars, mvars, service, sessions, gens, nextTask, nextKv, panic, recv>>

NumDecode_Always(range_end, len) == 1
\* DecodingMeta.num_decode of a task whose forwarded range ends at range_end
NumDecode(range_end, len) == IF range_end = len THEN 1 ELSE 0

\* one task of a batch whose forward takes the first n of its outstanding
\* tokens: a task that is not caught up by that gets no token and is handed
\* back to the batcher to go on with its prefill
StepTaskRange(st, t, tok, n) ==
    LET task == st.tasks[t]
        c == task.cache
    IN IF ~task.rx \/ ~c.some
       THEN st
       ELSE LET query == SubSeq(QueryTokens(c), 1, n)
                c1 == [c EXCEPT !.end = c.end + n]
                mem == ForwardWrite(st.kvmem[c.kv], c.end - c.start, query)
            IN IF NumDecode(c1.end - c1.start, Len(c.tokens)) = 0
               THEN [st EXCEPT !.tasks[t].cache = c1,
                               !.kvmem[c.kv] = mem,
                               !.queue = EnqPush(@, alive, t)]
               ELSE IF tok = Eos
               THEN [st EXCEPT !.tasks[t].cache = c1, !.kvmem[c.kv] = mem]
               ELSE [st EXCEPT !.tasks[t].cache = CachePush(c1, tok),
                               !.tasks[t].chan = Append(@, tok),
                               !.kvmem[c.kv] = mem,
                               !.queue = EnqPush(@, alive, t),
                               !.sent[t] = Append(@, tok)]

RECURSIVE StepBatchRange(_, _, _, _, _)
StepBatchRange(st, b, toks, ns, i) ==
    IF i > Len(b) THEN st
    ELSE CHOOSE r \in {StepBatchRange(s, b, toks, ns, i + 1) :
                          s \in {StepTaskRange(st, b[i], toks[i], ns[i])}} : TRUE

\* one iteration over the batch under a budget of tokens per batch: every
\* task forwards some, at least one, of its outstanding tokens
WorkerStepRanges(V) ==
    /\ wpc = "step"
    /\ ~Overrun
    /\ \E toks \in [1..Len(batch) -> V], ns \in [1..Len(batch) -> 0..MaxTokens] :
        /\ \A i \in 1..Len(batch) :
            LET task == tasks[batch[i]]
                outstanding == Len(QueryTokens(task.cache))
            IN /\ (~task.rx \/ ~task.cache.some \/ ~CanGrow(task.cache)) => toks[i] = Eos
               /\ ns[i] <= outstanding
               /\ outstanding > 0 => ns[i] >= 1
        /\ \E st \in {StepBatchRange([tasks |-> tasks, kvmem |-> kvmem, queue |-> queue,
                                       sent |-> sent], batch, toks, ns, 1)} :
              /\ tasks' = st.tasks
              /\ kvmem' = st.kvmem
              /\ queue' = st.queue
              /\ sent' = st.sent
    /\ batch' = <<>>
    /\ wpc' = "deq"
    /\ UNCHANGED <<alive, bvars, mvars, service, sessions, gens, nextTask, nextKv, panic, recv>>

\* an iteration whose forward is given a query that does not fit the KV
\* tensor: the slice is out of range and the worker stops there
WorkerOverrun ==
    /\ wpc = "step"
    /\ Overrun
    /\ panic' = "forward out of range"
    /\ wpc' = "exited"
    /\ UNCHANGED <<queue, alive, bvars, mvars, service, sessions, gens, tasks, nextTask,
                   kvmem, nextKv, batch, sent, recv>>

\* what extend is called with: no message, one, or several
NoMsgs == {<<>>}
OneMsg == {<<m>> : m \in Tokenized}
TwoMsgs == {<<m1, m2>> : m1 \in Tokenized, m2 \in Tokenized}

\* one session, its dialog and cache, and the worker (the Service is kept)
Next ==
    \/ \E s \in {1} : Launch(s)
    \/ \E s \in {1}, msgs \in NoMsgs \cup OneMsg \cup TwoMsgs : Extend(s, msgs)
    \/ \E s \in {1} : Chat(s)
    \/ \E s \in {1} : Decode(s)
    \/ \E s \in {1} : DropBusy(s)
    \/ \E s \in {1}, n \in 0..(MaxTokens + 1) : Revert(s, n)
    \/ WorkerDeq
    \/ WorkerStep(Vocab)

Spec == Init /\ [][Next]_vars

\* a session and its fork, side by side
ForkNext ==
    \/ \E s \in {1} : Launch(s)
    \/ \E s, t \in SessionIds : Fork(s, t)
    \/ \E s \in SessionIds, msgs \in {<< <<1>> >>} : Extend(s, msgs)
    \/ \E s \in SessionIds : Chat(s)
    \/ \E s \in SessionIds : DropBusy(s)
    \/ \E s \in SessionIds, n \in {1} : Revert(s, n)
    \/ WorkerDeq
    \/ WorkerStep({1, Eos})

SpecFork == Init /\ [][ForkNext]_vars

\* a BusySession and a Generator streaming side by side through one batch
StreamNext ==
    \/ \E s \in {1} : Launch(s)
    \/ \E s \in {1}, msgs \in {<< <<1>> >>} : Extend(s, msgs)
    \/ \E s \in {1} : Chat(s)
    \/ \E s \in {1} : Decode(s)
    \/ \E s \in {1} : DropBusy(s)
    \/ \E g \in {1}, p \in {<<1>>} : Generate(g, p)
    \/ \E g \in {1} : GenDecode(g)
    \/ \E g \in {1} : DropGen(g)
    \/ WorkerDeq
    \/ WorkerStep(Vocab)

SpecStream == Init /\ [][StreamNext]_vars

\* a message that tokenizes to one token more than the model's window
LongMessage == [i \in 1..(MaxSeqLen + 1) |-> 1]

\* sessions that are launched, forked, extended and reverted but never
\* submitted: the callers' messages may be short or long
SessionNext ==
    \/ \E s \in {1} : Launch(s)
    \/ \E s, t \in SessionIds : Fork(s, t)
    \/ \E s \in SessionIds, msgs \in OneMsg \cup {<<LongMessage>>} :
          ExtendUpTo(s, msgs, MaxSeqLen + 1)
    \/ \E s \in SessionIds, n \in 0..2 : Revert(s, n)
    \/ \E s \in SessionIds : DropSession(s)

SpecSession == Init /\ [][SessionNext]_vars

\* a session that is extended with short or long messages and then submitted
\* with chat, and the worker that serves it
WindowNext ==
    \/ \E s \in {1} : Launch(s)
    \/ \E s \in {1}, msgs \in OneMsg \cup {<<LongMessage>>} :
          ExtendUpTo(s, msgs, MaxSeqLen + 1)
    \/ \E s \in {1} : Chat(s)
    \/ WorkerDeq
    \/ WorkerStep({1, Eos})
    \/ WorkerOverrun

SpecWindow == Init /\ [][WindowNext]_vars

\* generators whose prompts the worker may prefill over several iterations
PrefillNext ==
    \/ \E g \in GenIds, p \in Tokenized : Generate(g, p)
    \/ \E g \in GenIds : GenDecode(g)
    \/ WorkerDeq
    \/ WorkerStepRanges({1, Eos})

SpecPrefill == Init /\ [][PrefillNext]_vars

\* generators submitting prompts of different lengths in any order, all
\* served by the same worker
BatchNext ==
    \/ \E g \in GenIds, p \in Tokenized : Generate(g, p)
    \/ \E g \in GenIds : GenDecode(g)
    \/ WorkerDeq
    \/ WorkerStep({1, Eos})

SpecBatch == Init /\ [][BatchNext]_vars

\* the worker is a thread of its own (spawn_blocking): it keeps running
SpecBatchFair ==
    SpecBatch /\ WF_vars(WorkerDeq) /\ WF_vars(WorkerStep({1, Eos}))

\* a prompt that leaves no room to generate: its task ends in its first pass
LongPrompt == [i \in 1..(MaxTokens - 1) |-> 1]

\* the life of the Service: a session and a generator come and go, the last
\* holder's drop stops the dispatcher
LifeNext ==
    \/ \E s \in {1} : Launch(s)
    \/ \E s \in {1}, msgs \in {<< <<1>> >>} : Extend(s, msgs)
    \/ \E s \in {1} : Chat(s)
    \/ \E s \in {1} : Decode(s)
    \/ \E s \in {1} : DropBusy(s)
    \/ \E s \in {1} : DropSession(s)
    \/ DropService
    \/ \E g \in {1}, p \in {LongPrompt} : Generate(g, p)
    \/ \E g \in {1} : DropGen(g)
    \/ WorkerDeq
    \/ WorkerStep({1, Eos})

SpecLife == Init /\ [][LifeNext]_vars

\* the worker is a thread of its own (spawn_blocking): it keeps running
SpecLifeFair ==
    SpecLife /\ WF_vars(WorkerDeq) /\ WF_vars(WorkerStep({1, Eos}))

(***************************************************************************)
(* Properties of the session: dialog/cache agreement, restore_cache,       *)
(* ownership of the cache, revert.                                         *)
(***************************************************************************)
Idle(s) == sessions[s].live /\ sessions[s].busy = 0
Busy(s) == sessions[s].live /\ sessions[s].busy # 0

\* C2: whenever a session holds its cache (after extend has returned, after
\* a BusySession was dropped, after revert, after fork) the token position the
\* cache reports equals dialog.num_tokens(), and the assert_eq at the end of
\* extend has never failed.
C2_Theorem ==
    /\ panic # "extend assert_eq"
    /\ \A s \in SessionIds :
        (Idle(s) /\ sessions[s].cache.some) =>
            CacheEnd(sessions[s].cache) = DialogNumTokens(sessions[s].dialog)

\* extend, a dropped BusySession that had generated a sentence, extend again
C2_Witness ==
    \E s \in SessionIds :
        /\ Idle(s) /\ sessions[s].cache.some
        /\ Len(sessions[s].dialog) = 3
        /\ Len(sessions[s].dialog[2]) >= 2
        /\ sessions[s].dialog[2][Len(sessions[s].dialog[2])] = Eos
        /\ CacheEnd(sessions[s].cache) = DialogNumTokens(sessions[s].dialog)

\* a step in which the BusySession of s is dropped
DropStep(s) == Busy(s) /\ sessions'[s].live /\ sessions'[s].busy = 0

C3_Grew(s) ==
    Len(tasks[sessions[s].busy].cache.tokens) > DialogNumTokens(sessions[s].dialog)

C3_Post(s) ==
    LET c == tasks[sessions[s].busy].cache
        d == sessions[s].dialog
        end == DialogNumTokens(d)
    IN IF C3_Grew(s)
       THEN /\ sessions'[s].cache.tokens = c.tokens \o <<Eos>>
            /\ sessions'[s].dialog =
                   Append(d, SubSeq(c.tokens, end + 1, Len(c.tokens)) \o <<Eos>>)
       ELSE /\ sessions'[s].cache.tokens = c.tokens
            /\ sessions'[s].dialog = d

\* while the BusySession lives, the task's cache holds the dialog's tokens
\* followed by exactly the tokens generated so far
C3_WhileBusy ==
    \A s \in SessionIds :
        Busy(s) =>
            tasks[sessions[s].busy].cache.tokens =
                Flatten(sessions[s].dialog) \o sent[sessions[s].busy]

\* C3: dropping a BusySession whose task generated tokens appends exactly one
\* EOS to the cache and pushes exactly one sentence, the generated tokens
\* followed by that EOS, to the dialog; if nothing was generated, dialog and
\* cache tokens are as before chat(). The stream may have ended or not.
C3_Theorem ==
    /\ []C3_WhileBusy
    /\ [][\A s \in SessionIds : DropStep(s) => C3_Post(s)]_vars

\* the caller cancelled early (the worker still holds the task) after tokens
\* were generated, and the session got its sentence
C3_Witness ==
    \E s \in SessionIds, t \in TaskIds :
        /\ Idle(s) /\ sessions[s].cache.some
        /\ TxOpen(t) /\ ~tasks[t].rx
        /\ Len(sessions[s].dialog) = 2
        /\ Len(sessions[s].dialog[2]) = 3
        /\ sessions[s].dialog[2][3] = Eos
        /\ sessions[s].cache.tokens = Flatten(sessions[s].dialog)

\* the statement as written: the cache is always with exactly one of the
\* Session and the Task
C4_ExactlyOne ==
    \A s \in SessionIds :
        sessions[s].live =>
            (sessions[s].cache.some
                 # (sessions[s].busy # 0 /\ tasks[sessions[s].busy].cache.some))

C4_Holder ==
    \A s \in SessionIds :
        /\ Busy(s) => ~sessions[s].cache.some /\ tasks[sessions[s].busy].cache.some
        /\ (Idle(s) /\ ~sessions[s].cache.some) => sessions[s].dialog = <<>>

\* C4: the cache is never held twice; it is with the Task and None in the
\* Session for the whole life of the BusySession, Some again in the step that
\* drops the BusySession, and None outside a BusySession only in a session
\* that was never extended.
C4_Theorem ==
    /\ []C4_Holder
    /\ [][\A s \in SessionIds : DropStep(s) => sessions'[s].cache.some]_vars

\* a second BusySession: the cache went to a task, came back, went again
C4_Witness ==
    \E s \in SessionIds :
        /\ Busy(s) /\ sessions[s].busy = 2
        /\ ~sessions[s].cache.some
        /\ tasks[2].cache.some /\ Len(tasks[2].cache.tokens) >= 3

\* a step in which revert shortened the dialog of s
RevertStep(s) ==
    /\ Idle(s) /\ sessions'[s].live
    /\ Len(sessions'[s].dialog) < Len(sessions[s].dialog)

C5_Result ==
    \A s \in SessionIds, n \in 0..(MaxTokens + 1) :
        Idle(s) =>
            LET sess == sessions[s]
                k == DialogNumSentences(sess.dialog)
            IN /\ SessionRevertResult(sess, n) = "ChatError" <=> n > k
               /\ n >= k => SessionRevert(sess, n) = sess
               /\ n < k => /\ ~SessionRevertAborts(sess, n)
                           /\ SessionDialogPos(SessionRevert(sess, n)) = n
                           /\ SessionRevert(sess, n).sample = sess.sample

\* C5: revert(n) returns ChatError exactly when n > num_sentences, and then
\* leaves dialog, cache and sample arguments as they were; n = num_sentences
\* returns Ok and changes nothing; a smaller n returns Ok, does not abort, and
\* dialog_pos() becomes n.
C5_Theorem ==
    /\ []C5_Result
    /\ [][\A s \in SessionIds :
            RevertStep(s) =>
                /\ panic' = "none"
                /\ SessionRevertResult(sessions[s], Len(sessions'[s].dialog)) = "Ok"
                /\ sessions'[s] = SessionRevert(sessions[s], Len(sessions'[s].dialog))]_vars

\* revert(1) after a generated answer: the dialog is back to its first
\* sentence while the KV tensor still carries what was forwarded beyond it
C5_Witness ==
    \E s \in SessionIds :
        /\ Idle(s) /\ sessions[s].cache.some
        /\ Len(sessions[s].dialog) = 1
        /\ sessions[s].cache.tokens = sessions[s].dialog[1]
        /\ kvmem[sessions[s].cache.kv][Len(sessions[s].cache.tokens) + 1] # Blank

(***************************************************************************)
(* Fork isolation (SpecFork) and the order of a task's stream (SpecStream) *)
(***************************************************************************)
\* the positions of a cache's tensor whose KV is valid
KvWindow(mem, c) == [i \in 1..CacheCachedLen(c) |-> mem[c.kv][i]]

\* a step in which session t comes to life holding a cache: a fork
ForkStep(t) == ~sessions[t].live /\ sessions'[t].live /\ sessions'[t].cache.some

C6_ForkPost(t) ==
    \E s \in SessionIds \ {t} :
        /\ Idle(s) /\ sessions[s].cache.some
        /\ sessions'[s] = sessions[s]
        /\ kvmem'[sessions[s].cache.kv] = kvmem[sessions[s].cache.kv]
        /\ sessions'[t].dialog = sessions[s].dialog
        /\ sessions'[t].cache.tokens = sessions[s].cache.tokens
        /\ sessions'[t].cache.kv # sessions[s].cache.kv
        /\ KvWindow(kvmem', sessions'[t].cache) = KvWindow(kvmem, sessions[s].cache)

\* a step in which extend pushed one message to session t
ExtendStep(t) ==
    /\ Idle(t) /\ sessions'[t].live /\ sessions'[t].busy = 0
    /\ Len(sessions'[t].dialog) = Len(sessions[t].dialog) + 1

\* the session and the tensor of an idle session s are touched by its own
\* operations only
C6_Frame(s) ==
    /\ \A t \in SessionIds \ {s} :
           sessions'[t] # sessions[t] => sessions'[s] = sessions[s]
    /\ (Idle(s) /\ sessions[s].cache.some /\ sessions'[s] = sessions[s]) =>
           kvmem'[sessions[s].cache.kv] = kvmem[sessions[s].cache.kv]

\* no tensor is shared by the caches of two holders
C6_Distinct ==
    /\ \A s, t \in SessionIds :
           (s # t /\ sessions[s].cache.some /\ sessions[t].cache.some) =>
               sessions[s].cache.kv # sessions[t].cache.kv
    /\ \A s \in SessionIds, t \in TaskIds :
           (sessions[s].cache.some /\ tasks[t].cache.some) =>
               sessions[s].cache.kv # tasks[t].cache.kv
    /\ \A t, u \in TaskIds :
           (t # u /\ tasks[t].cache.some /\ tasks[u].cache.some) =>
               tasks[t].cache.kv # tasks[u].cache.kv

\* C6: fork gives T the dialog, the token list and the valid KV window of S in
\* a tensor of its own and leaves S as it was; afterwards extend, chat, the
\* worker's passes and revert on either session leave the other session's
\* dialog, cache and tensor unchanged, and T.extend(x) makes T's tokens those
\* it had (S's at the fork) followed by tokenize(x).
C6_Theorem ==
    /\ []C6_Distinct
    /\ [][\A t \in SessionIds : ForkStep(t) => C6_ForkPost(t)]_vars
    /\ [][\A s \in SessionIds : C6_Frame(s)]_vars
    /\ [][\A t \in SessionIds :
            ExtendStep(t) =>
                sessions'[t].cache.tokens =
                    sessions[t].cache.tokens \o sessions'[t].dialog[Len(sessions'[t].dialog)]]_vars

\* S was forked after a forward pass, T was extended and ran a pass of its
\* own: S is as it was at the fork, T is ahead of it
C6_Witness ==
    /\ Idle(1) /\ Idle(2)
    /\ sessions[1].cache.some /\ sessions[2].cache.some
    /\ sessions[1].cache.kv # sessions[2].cache.kv
    /\ kvmem[sessions[1].cache.kv][1] # Blank
    /\ sessions[1].cache.end = 1 /\ sessions[2].cache.end = 2
    /\ sessions[2].dialog = Append(sessions[1].dialog, <<1>>)
    /\ sessions[2].cache.tokens = sessions[1].cache.tokens \o <<1>>
    /\ kvmem[sessions[2].cache.kv][1] = kvmem[sessions[1].cache.kv][1]
    /\ kvmem[sessions[2].cache.kv][2] # kvmem[sessions[1].cache.kv][2]

\* C7: what the successive decode() calls of a task's BusySession or
\* Generator have returned, followed by what waits in its channel, is exactly
\* the sequence of tokens sampled for the task, in the order of the
\* dispatcher's iterations, whatever else is batched with it.
C7_Theorem ==
    \A t \in TaskIds : recv[t] \o tasks[t].chan = sent[t]

\* two tasks stream through the same batches; one has delivered two
\* different tokens in the order they were sampled
C7_Witness ==
    \E t, u \in TaskIds :
        /\ t # u
        /\ tasks[t].rx /\ tasks[u].rx
        /\ Len(recv[t]) = 2 /\ recv[t][1] # recv[t][2]
        /\ recv[t] = sent[t]
        /\ sent[u] # <<>>

(***************************************************************************)
(* Aborts of the session's operations, and the end of the dispatcher.      *)
(***************************************************************************)
\* C8: no operation of a session aborts: launch, extend, chat, decode, the
\* drop of the BusySession and revert complete or return ChatError.
C8_NoAbort == panic = "none"

\* the abort that is reached: chat() on a session whose cache is None
C8_ChatOnFresh ==
    /\ panic = "chat unwrap"
    /\ sessions[1].live /\ sessions[1].dialog = <<>> /\ ~sessions[1].cache.some

\* the statement as written: once the Service value is dropped the batcher
\* becomes dead (in a run in which no caller aborts)
C9_ServiceDropStops == (~service /\ panic = "none") ~> (~alive \/ panic # "none")

\* the batcher is alive exactly as long as the component has a holder, and a
\* dead batcher keeps nothing and accepts nothing
C9_DeadWithLastHolder ==
    /\ alive <=> (service \/ (\E s \in SessionIds : sessions[s].live)
                          \/ (\E g \in GenIds : gens[g] # 0))
    /\ ~alive => /\ queue = <<>>
                 /\ \A t \in TaskIds : EnqPush(queue, alive, t) = queue

\* decode() of s has nothing to return yet and the stream is still open
C9_Waiting(s) ==
    /\ Busy(s)
    /\ tasks[sessions[s].busy].chan = <<>>
    /\ TxOpen(sessions[s].busy)

\* C9: the dispatcher is stopped by the drop of the last holder of the
\* component (the Service, a Session or a Generator), not by the drop of the
\* Service while sessions or generators live: from then on the batcher is
\* dead, every enq is a no-op and the worker loop exits; until then the worker
\* keeps serving, so no session waits forever in decode().
C9_Theorem ==
    /\ []C9_DeadWithLastHolder
    /\ (~alive) ~> (wpc = "exited")
    /\ \A s \in {1} : C9_Waiting(s) ~> ~C9_Waiting(s)

\* the last holder was dropped while the worker was in the middle of a batch
C9_Witness == ~service /\ ~alive /\ wpc = "step" /\ batch # <<>>

\* C10: once the batcher is shut down the worker runs no pass beyond the batch
\* it is in: the queue stays empty, its next deq returns the empty vector and
\* ends the loop, the loop never resumes, and the worker does reach that end.
C10_Theorem ==
    /\ [](~alive => queue = <<>>)
    /\ [][(~alive /\ wpc = "deq" /\ wpc' # "deq") =>
              (wpc' = "exited" /\ batch' = <<>>)]_vars
    /\ [][wpc = "exited" =>
              (wpc' = "exited" /\ UNCHANGED <<tasks, kvmem, sent, batch>>)]_vars
    /\ (~alive) ~> [](wpc = "exited")

\* the worker has ended after a shutdown that found tasks behind it
C10_Witness == ~alive /\ wpc = "exited" /\ nextTask > 0 /\ batch = <<>>

(***************************************************************************)
(* The Batcher after shutdown, its wake-ups and its order (SpecBatcher,    *)
(* SpecBatcherFair).                                                       *)
(***************************************************************************)
\* a step in which consumer c returns from deq
DeqReturns(c) == bpc[c] = "locked" /\ bpc'[c] = "idle"
\* a step in which producer p returns from enq
EnqReturns(p) == bpc[p] = "locked" /\ bpc'[p] = "idle"

C11_Dead ==
    /\ bpc[Stopper] = "done" => ~alive
    /\ ~alive => queue = <<>>

C11_StaysDead ==
    ~alive =>
        /\ ~alive'
        /\ returned' = returned
        /\ \A p \in Producers : EnqReturns(p) => (pushed' = pushed /\ queue' = <<>>)
        /\ \A c \in Consumers :
               bpc[c] = "locked" => (bpc'[c] # "waiting" /\ (DeqReturns(c) => ret'[c] = <<>>))

\* C11: once shutdown has run the batcher is dead and stays dead; every later
\* enq stores nothing, the pending vector stays empty, every later deq
\* returns the empty vector without parking, and no deq returns any item any
\* more, so what was pending at the shutdown is never returned.
C11_Theorem == []C11_Dead /\ [][C11_StaysDead]_vars

\* after the shutdown a producer has called enq, holding an item that was
\* never stored, while an item stored before the shutdown was never returned
C11_Witness ==
    /\ ~alive /\ queue = <<>>
    /\ \E p \in Producers : nsent[p] = MaxItems /\ <<p, MaxItems>> \notin pushed
    /\ \E i \in pushed : returned[i] = 0
    /\ \E c \in Consumers : bpc[c] = "locked"

C12_NoneParked == ~alive => (waiters = {} /\ \A c \in Consumers : bpc[c] # "waiting")

\* C12: when shutdown runs, every consumer parked in deq is woken, none stays
\* or becomes parked afterwards, and each consumer that is inside deq
\* eventually returns, with the empty vector.
C12_Theorem ==
    /\ []C12_NoneParked
    /\ [][\A c \in Consumers : (~alive /\ DeqReturns(c)) => ret'[c] = <<>>]_vars
    /\ \A c \in Consumers : (~alive /\ bpc[c] # "idle") ~> (bpc[c] = "idle")

\* both consumers were parked when shutdown ran: both are woken
C12_Witness == ~alive /\ \A c \in Consumers : bpc[c] = "woken"

\* a pending item on an alive batcher is never left with parked consumers
\* only: some consumer is awake inside deq, on its way to the check
C13_SomeoneAwake ==
    (alive /\ queue # <<>> /\ waiters # {}) =>
        \E c \in Consumers : bpc[c] \in {"woken", "locked"}

\* C13: no wake-up is lost: an item stored on an alive batcher, with a
\* consumer blocked in deq or calling deq afterwards, is eventually returned
\* by a deq unless a shutdown intervenes, for every interleaving of push and
\* notify_one with the consumers' check-and-wait.
C13_Theorem ==
    /\ []C13_SomeoneAwake
    /\ \A i \in Items :
           (alive /\ i \in SeqToSet(queue) /\ \E c \in Consumers : bpc[c] # "idle")
               ~> (returned[i] = 1 \/ ~alive)

\* an item was pushed while both consumers were parked; one was woken and
\* the other still sleeps
C13_Witness ==
    /\ alive /\ queue # <<>>
    /\ \E c, d \in Consumers : c # d /\ bpc[c] = "woken" /\ d \in waiters

\* C14: a deq that returns the empty vector found the batcher dead; on an
\* alive batcher with nothing pending the consumer parks, also when it was
\* woken spuriously.
C14_Theorem ==
    /\ []~emptyAlive
    /\ [][\A c \in Consumers :
            /\ (DeqReturns(c) /\ ret'[c] = <<>>) => ~alive
            /\ (bpc[c] = "locked" /\ alive /\ queue = <<>>) => bpc'[c] # "idle"]_vars

\* a consumer that had returned a batch is parked again on the alive, empty
\* batcher while the other one, woken with nothing pending, is at its check
C14_Witness ==
    \E c, d \in Consumers :
        /\ c # d /\ alive /\ queue = <<>>
        /\ bpc[c] = "waiting" /\ ret[c] # <<>>
        /\ bpc[d] = "locked" /\ nsent = [p \in Producers |-> MaxItems]

\* the index of item x in vector q (0 if absent)
IndexOf(q, x) == IF \E k \in 1..Len(q) : q[k] = x
                 THEN CHOOSE k \in 1..Len(q) : q[k] = x ELSE 0

\* C15: two items of one producer keep the order of their enq calls: the
\* earlier one stands before the later one in the pending vector and in a
\* deq result, and the later one is never returned while the earlier one is
\* still pending.
C15_Theorem ==
    \A p \in Producers, a, b \in 1..MaxItems :
        a < b =>
            /\ (IndexOf(queue, <<p, b>>) > 0 /\ IndexOf(queue, <<p, a>>) > 0) =>
                   IndexOf(queue, <<p, a>>) < IndexOf(queue, <<p, b>>)
            /\ \A c \in Consumers :
                   (IndexOf(ret[c], <<p, b>>) > 0 /\ IndexOf(ret[c], <<p, a>>) > 0) =>
                       IndexOf(ret[c], <<p, a>>) < IndexOf(ret[c], <<p, b>>)
            /\ returned[<<p, b>>] > 0 => returned[<<p, a>>] > 0
            /\ <<p, b>> \in pushed => <<p, a>> \in pushed

\* one deq returned two items of a producer with another producer's item
\* between them
C15_Witness ==
    \E c \in Consumers, p \in Producers :
        /\ Len(ret[c]) = 3
        /\ ret[c][1] = <<p, 1>> /\ ret[c][3] = <<p, 2>> /\ ret[c][2][1] # p

(***************************************************************************)
(* Cancellation, end of stream and progress of the tasks (SpecStream).     *)
(***************************************************************************)
Created(t) == t <= nextTask
\* the handle of task t was dropped: the receiving end of its channel is gone
Dropped(t) == Created(t) /\ ~tasks[t].rx
\* one iteration of the worker over its batch
WorkerStepStep == wpc = "step" /\ wpc' = "deq"
\* a step in which generator g is dropped
DropGenStep(g) == gens[g] # 0 /\ gens'[g] = 0

\* a task is held at most once, by the pending vector or by the batch
C16_HeldOnce ==
    \A t \in TaskIds : CountIn(queue \o batch, t) <= 1

C16_Closes ==
    /\ \A s \in SessionIds :
           DropStep(s) => (~tasks'[sessions[s].busy].rx
                           /\ ~tasks'[sessions[s].busy].cache.some)
    /\ \A g \in GenIds :
           DropGenStep(g) => (~tasks'[gens[g]].rx /\ ~tasks'[gens[g]].cache.some)

C16_Silent ==
    \A t \in TaskIds :
        Dropped(t) =>
            /\ tasks'[t] = tasks[t] /\ sent'[t] = sent[t] /\ recv'[t] = recv[t]
            /\ ~TxOpen(t) => ~TxOpen(t)'
            /\ (WorkerStepStep /\ t \in SeqToSet(batch)) => ~TxOpen(t)'

C16_OthersRun ==
    WorkerStepStep =>
        \A u \in SeqToSet(batch) :
            (tasks[u].rx /\ tasks[u].cache.some) =>
                \/ (Len(sent'[u]) = Len(sent[u]) + 1 /\ u \in SeqToSet(queue'))
                \/ (sent'[u] = sent[u] /\ ~TxOpen(u)')

\* C16: the drop of a BusySession or Generator closes the channel of its task
\* and takes its cache; from then on nothing is appended for, sent to or
\* received from that task, the worker's next iteration over a batch that
\* still holds it evicts it, it never returns to the pending vector, and the
\* other tasks of that batch are stepped as usual.
C16_Theorem ==
    /\ []C16_HeldOnce
    /\ [][C16_Closes]_vars
    /\ [][C16_Silent]_vars
    /\ [][C16_OthersRun]_vars

\* the worker is about to step a batch that holds a cancelled task next to a
\* task that is streaming
C16_Witness ==
    /\ wpc = "step"
    /\ \E t, u \in SeqToSet(batch) :
           Dropped(t) /\ tasks[u].rx /\ sent[u] # <<>> /\ tasks[u].cache.some

\* the stream of task t has ended while its handle lives: the worker let go
\* of the task (EOS was sampled for it) and no sender is left
Ended(t) == Created(t) /\ tasks[t].rx /\ ~TxOpen(t)
\* what decode() finds: nothing buffered and no sender, so it returns None
DecodeNone(t) == tasks[t].chan = <<>> /\ ~TxOpen(t)

C17_AfterEos ==
    \A t \in TaskIds :
        /\ (WorkerStepStep /\ t \in SeqToSet(batch) /\ tasks[t].rx /\ sent'[t] = sent[t])
               => Ended(t)'
        /\ (Ended(t) /\ tasks'[t].rx) =>
               /\ Ended(t)'
               /\ sent'[t] = sent[t]
               /\ tasks'[t].cache = tasks[t].cache
               /\ DecodeNone(t) => (DecodeNone(t)' /\ recv'[t] = recv[t])

Waiting(t) == Created(t) /\ tasks[t].rx /\ tasks[t].chan = <<>> /\ TxOpen(t)

C18_AllPulled ==
    (wpc = "deq" /\ wpc' = "step") => (batch' = queue /\ queue' = <<>>)

C18_AllStepped ==
    WorkerStepStep =>
        \A u \in SeqToSet(batch) :
            (tasks[u].rx /\ tasks[u].cache.some) =>
                \/ (Len(sent'[u]) = Len(sent[u]) + 1 /\ u \in SeqToSet(queue'))
                \/ (sent'[u] = sent[u] /\ ~TxOpen(u)')

Participating == {u \in SeqToSet(batch) : tasks[u].rx /\ tasks[u].cache.some}
\* seq_len of the query of cache c: its tokens beyond the cached window
SeqLen(c) == Len(c.tokens) - (c.end - c.start)

RECURSIVE SumOver(_, _)
SumOver(S, f) ==
    IF S = {} THEN 0
    ELSE LET x == CHOOSE y \in S : TRUE IN f[x] + SumOver(S \ {x}, f)

C19_Advance ==
    WorkerStepStep =>
        /\ \A u \in Participating :
              tasks'[u].cache.end = tasks[u].cache.end + SeqLen(tasks[u].cache)
        /\ SumOver(Participating, [u \in TaskIds |-> tasks'[u].cache.end])
             = SumOver(Participating, [u \in TaskIds |-> tasks[u].cache.end])
               + SumOver(Participating, [u \in TaskIds |-> SeqLen(tasks[u].cache)])

C19_OthersKeep ==
    WorkerStepStep =>
        /\ \A u \in TaskIds \ Participating :
              tasks'[u].cache.end = tasks[u].cache.end
        /\ \A s \in SessionIds : sessions'[s].cache.end = sessions[s].cache.end

C19_EndWithinTokens ==
    WorkerStepStep =>
        /\ \A u \in TaskIds : tasks'[u].cache.end <= Len(tasks'[u].cache.tokens)
        /\ \A s \in SessionIds : sessions'[s].cache.end <= Len(sessions'[s].cache.tokens)

Caches ==
    {sessions[s].cache : s \in SessionIds} \cup {tasks[t].cache : t \in TaskIds}

C20_Order ==
    \A c \in Caches :
        c.some => (0 <= c.start /\ c.start <= c.end /\ c.end <= Len(c.tokens)
                     /\ c.end - c.start <= MaxSeqLen)

C20_Window ==
    \A c \in Caches : c.some => Len(c.tokens) <= MaxSeqLen + c.start

\* C20: every cache satisfies 0 <= start <= end <= len(tokens) <=
\* max_seq_len + start and end - start <= max_seq_len, whatever operations
\* have run on it.
C20_Bounds == C20_Order /\ C20_Window

\* extend has been given a message longer than the window: all its tokens are
\* in the token list of a cache whose window still starts at 0
C20_LongPrompt ==
    \E s \in SessionIds :
        /\ sessions[s].cache.some
        /\ sessions[s].dialog = <<LongMessage>>
        /\ sessions[s].cache.tokens = LongMessage
        /\ sessions[s].cache.start = 0
        /\ panic = "none"

(***************************************************************************)
(* Revert applied twice (Spec).                                            *)
(***************************************************************************)
\* the sessions revert can be called on: live and not borrowed
Revertible == {s \in SessionIds : sessions[s].live /\ sessions[s].busy = 0}
\* the positions a caller may pass
RevertArgs == 0..(MaxTokens + 1)

C21_Idempotent ==
    \A s \in Revertible, n \in RevertArgs :
        ~SessionRevertAborts(sessions[s], n) =>
            LET once == SessionRevert(sessions[s], n)
                twice == SessionRevert(once, n)
            IN /\ ~SessionRevertAborts(once, n)
               /\ SessionRevertResult(once, n) = SessionRevertResult(sessions[s], n)
               /\ twice.dialog = once.dialog
               /\ twice.cache = once.cache
               /\ twice = once

\* C21: in every reachable session state and for every n, revert(n) called
\* twice in a row returns the same value and leaves the same dialog and
\* cache (tokens, start, end) as revert(n) called once.
C21_Theorem == []C21_Idempotent

\* a session after a forward pass and a generated sentence, for which
\* revert(n) drops sentences, shortens the token list and pulls end back
C21_Witness ==
    \E s \in Revertible, n \in RevertArgs :
        LET once == SessionRevert(sessions[s], n)
        IN /\ n < DialogNumSentences(sessions[s].dialog)
           /\ DialogNumSentences(sessions[s].dialog) >= 2
           /\ once.cache.end < sessions[s].cache.end
           /\ Len(once.cache.tokens) < Len(sessions[s].cache.tokens)
           /\ n > 0

(***************************************************************************)
(* Which thread calls the backend (SpecFork).                              *)
(***************************************************************************)
\* new_cache or duplicate_cache has returned a tensor in this step
AllocStep == nextKv' = nextKv + 1
\* forward has written keys and values into a tensor that was in use
ForwardWroteStep ==
    \E k \in 1..nextKv, i \in 1..MaxSeqLen :
        kvmem'[k][i] # kvmem[k][i] /\ kvmem'[k][i] # Blank
\* sample has produced a token that was routed to a task
SampledStep == \E t \in TaskIds : Len(sent'[t]) > Len(sent[t])
\* a step of an operation on a caller's thread
CallerStep == vars' # vars /\ wpc' = wpc

\* C22 as stated: the backend is entered only by the worker, so a tensor
\* comes out of new_cache or duplicate_cache only in a step of the worker
C22_OnlyWorker == [][AllocStep => WorkerStepStep]_vars

C22_ComputeOnWorker ==
    (ForwardWroteStep \/ SampledStep) => WorkerStepStep

C22_CallersAllocate ==
    (CallerStep /\ AllocStep) =>
        /\ \A k \in 1..nextKv : kvmem'[k] = kvmem[k]
        /\ \/ kvmem'[nextKv'] = [i \in 1..MaxSeqLen |-> Blank]
           \/ \E s \in SessionIds :
                 /\ sessions[s].cache.some
                 /\ kvmem'[nextKv'] =
                      [i \in 1..MaxSeqLen |->
                          IF i <= sessions[s].cache.end - sessions[s].cache.start
                          THEN kvmem[sessions[s].cache.kv][i] ELSE Blank]

\* C22 (amended): forward and sample run only in the steps of the one worker;
\* operations on a caller's thread do enter the backend, but only to
\* allocate a blank tensor (new_cache) or to copy the cached window of the
\* session's own cache (duplicate_cache), and they leave every tensor in use
\* as it was.
C22_Theorem ==
    /\ [][C22_ComputeOnWorker]_vars
    /\ [][C22_CallersAllocate]_vars
    /\ [][AllocStep => CallerStep]_vars

\* a fork has copied a cache whose tensor holds forwarded positions, while a
\* task of another session is with the worker
C22_Witness ==
    \E s, t \in SessionIds :
        /\ s # t
        /\ sessions[s].cache.some /\ sessions[t].cache.some
        /\ sessions[s].cache.end >= 1
        /\ sessions[t].cache.kv > sessions[s].cache.kv
        /\ kvmem[sessions[t].cache.kv][1] # Blank
        /\ sessions[t].cache.end = sessions[s].cache.end

(***************************************************************************)
(* The mutex and the computation on a batch (SpecBatcherFair).             *)
(***************************************************************************)
\* consumer c is outside every Batcher call with the batch its last deq
\* returned: this is where the worker embeds, forwards, decodes and samples
Computing(c) == bpc[c] = "idle" /\ ret[c] # <<>>

C23_NotHeldOutsideCalls ==
    \A t \in Threads : mutex = t <=> bpc[t] = "locked"

C23_FreeOfTheWorker ==
    \A c \in Consumers : Computing(c) => mutex # c

\* a thread can take the mutex whenever no enq, deq or shutdown body holds it,
\* whatever the consumers are computing
C23_EnqNeedsOnlyTheLock ==
    \A p \in Producers :
        (bpc[p] = "idle" /\ nsent[p] < MaxItems /\ mutex = "free") => ENABLED Lock(p)

\* C23: the mutex is held only inside the body of an enq, deq or shutdown
\* call, never by a consumer that has returned from deq and is computing on
\* its batch; every holder releases it, so an enq waits only for such a body.
C23_Theorem ==
    /\ []C23_NotHeldOutsideCalls
    /\ []C23_FreeOfTheWorker
    /\ []C23_EnqNeedsOnlyTheLock
    /\ []<>(mutex = "free")

\* a consumer is computing on a batch while a producer is inside enq with
\* the mutex
C23_Witness ==
    \E c \in Consumers, p \in Producers :
        Computing(c) /\ mutex = p /\ bpc[p] = "locked"

(***************************************************************************)
(* Collectives of the tensor-parallel forward (SpecTPFair).                *)
(***************************************************************************)
\* what every device issues: per layer, the all-reduce after self-attention
\* and the one after the MLP
RECURSIVE CollectiveOrder(_)
CollectiveOrder(l) ==
    IF l = NLayers THEN <<>>
    ELSE << <<l, "att">>, <<l, "mlp">> >> \o CollectiveOrder(l + 1)

IsPrefix(a, b) == Len(a) <= Len(b) /\ SubSeq(b, 1, Len(a)) = a

C24_SameOrder ==
    \A i \in Devices :
        /\ IsPrefix(tp.log[i], CollectiveOrder(0))
        /\ tp.pc[i] = "done" => Len(tp.log[i]) = 2 * NLayers

\* the k-th collective to complete was the k-th call of every device, all
\* with the same tag
C24_Paired ==
    /\ \A k \in 1..Len(tp.paired) : tp.paired[k] = {CollectiveOrder(0)[k]}
    /\ \A i \in Devices :
          Len(tp.paired) <= Len(tp.log[i]) /\ Len(tp.log[i]) <= Len(tp.paired) + 1

C24_ReturnsAfterJoin ==
    tp.main = "returned" =>
        /\ tp.joined = NDevices
        /\ \A i \in Devices : tp.pc[i] = "done"
        /\ Len(tp.paired) = 2 * NLayers

\* C24: every device thread issues exactly 2 * NLayers all-reduces, in the
\* same order (per layer: after self-attention, after the MLP), the k-th
\* collective pairs the k-th call of every device, no device stays in a
\* collective for ever, and forward returns only after all threads are joined.
C24_Theorem ==
    /\ []C24_SameOrder
    /\ []C24_Paired
    /\ []C24_ReturnsAfterJoin
    /\ \A i \in Devices : []<>(~InCollective(i))
    /\ <>(tp.main = "returned")

\* one device waits in a collective of the last layer that another device
\* has not entered yet
C24_Witness ==
    \E i, j \in Devices :
        /\ tp.pc[i] = "ar_mlp" /\ tp.layer[i] = NLayers - 1
        /\ tp.pc[j] = "mlp"
        /\ Len(tp.paired) = 2 * NLayers - 1

(***************************************************************************)
(* The residual across the shards (SpecTP).                                *)
(***************************************************************************)
\* the residual of a single device after k half blocks (attention, MLP,
\* attention, ..): the residual before plus the whole product
RECURSIVE RefAt(_, _, _)
RefAt(w, x0, k) ==
    IF k = 0 THEN x0
    ELSE LET X == RefAt(w, x0, k - 1)
             l == (k - 1) \div 2
             whole == IF k % 2 = 1
                      THEN SumDev([i \in Devices |-> PartAtt(w, i, l, X)], Devices)
                      ELSE SumDev([i \in Devices |-> PartMlp(w, i, l, X)], Devices)
         IN (X + whole) % ValueMod

\* between collectives every shard that is not inside one holds the residual
\* of the single device
C25_ShardsAgree ==
    \A i \in Devices :
        (tp.pc[i] \in {"att", "mlp", "done"}) =>
            tp.x[i] = RefAt(tp.w, tp.x0, Len(tp.paired))

\* inside a collective shard 0 holds X plus its partial, every other shard
\* its partial alone
C25_OnlyShardZeroAccumulates ==
    \A i \in Devices :
        InCollective(i) =>
            LET X == RefAt(tp.w, tp.x0, Len(tp.paired))
                l == tp.layer[i]
                part == IF tp.pc[i] = "ar_att" THEN PartAtt(tp.w, i, l, X)
                        ELSE PartMlp(tp.w, i, l, X)
            IN tp.x[i] = ((IF i = 0 THEN X ELSE 0) + part) % ValueMod

C25_SumOnce ==
    (Len(tp'.paired) = Len(tp.paired) + 1) =>
        LET X == RefAt(tp.w, tp.x0, Len(tp.paired))
            l == tp.layer[0]
            parts == IF tp.pc[0] = "ar_att"
                     THEN [i \in Devices |-> PartAtt(tp.w, i, l, X)]
                     ELSE [i \in Devices |-> PartMlp(tp.w, i, l, X)]
        IN \A i \in Devices : tp'.x[i] = (X + SumDev(parts, Devices)) % ValueMod

C25_EqualsSingleDevice ==
    tp.main = "returned" =>
        \A i \in Devices : tp.x[i] = RefForward(tp.w, 0, tp.x0)

\* C25: with all shards holding the same residual X before a block, the
\* all-reduce after the output projection, and the one after the MLP, leaves
\* X plus the sum of the partials on every shard, since only shard 0 adds its
\* partial onto X; so the shards agree at every boundary and the result is
\* that of a single device.
C25_Theorem ==
    /\ []C25_ShardsAgree
    /\ []C25_OnlyShardZeroAccumulates
    /\ [][C25_SumOnce]_vars
    /\ []C25_EqualsSingleDevice

\* forward has returned for a residual that counting X on every shard would
\* have changed
C25_Witness ==
    /\ tp.main = "returned"
    /\ ((NDevices - 1) * tp.x0) % ValueMod # 0
    /\ \E i, j \in Devices : tp.w[i] # tp.w[j]
    /\ tp.x[0] # tp.x0

(***************************************************************************)
(* Batched forward against the forwards one at a time (SpecForward).       *)
(***************************************************************************)
\* the batch has been forwarded as a whole and each request alone
Compared == fw.batch # NoResult /\ Len(fw.alone) = Len(fw.reqs)

\* request i has, in the batched result, the token, the cache and the
\* output rows it has when forwarded alone
SameAsAlone(i) ==
    LET one == fw.alone[i]
        off == RowsBefore(fw.reqs, i)
    IN /\ fw.batch.status = "ok" /\ one.status = "ok"
       /\ Sampled(fw.batch, fw.reqs, i) = Sampled(one, <<fw.reqs[i]>>, 1)
       /\ fw.batch.kv[i] = one.kv[1]
       /\ \A j \in 1..SeqLenOf(fw.reqs[i]) : fw.batch.x[off + j] = one.x[j]

\* C26: batched equivalence. Forwarding, decoding and greedily sampling N
\* requests one at a time gives every request the same sampled token, the
\* same cache contents and the same output rows as forwarding the N requests
\* together in one batch, whichever requests share the batch and whatever
\* the request's index in it; for MixtralCPU::forward and Transformer::update.
C26_BatchedEqualsAlone ==
    Compared => \A i \in 1..Len(fw.reqs) : SameAsAlone(i)

\* the part of C26 that is about MixtralCPU::forward
C26_MixtralEquivalent ==
    (Compared /\ fw.impl = "mixtral") => \A i \in 1..Len(fw.reqs) : SameAsAlone(i)

\* a batch of two requests that both bring tokens went through update and
\* through update one at a time
C26_UpdateBatchOfTwo ==
    /\ Compared /\ fw.impl = "transformer-cpu"
    /\ Len(fw.reqs) = 2
    /\ \A i \in 1..2 : SeqLenOf(fw.reqs[i]) > 0

\* update went through a batch of two requests with tokens without a panic,
\* and the second request is given another token than when forwarded alone
C26_Diverged ==
    /\ C26_UpdateBatchOfTwo
    /\ fw.batch.status = "ok"
    /\ Sampled(fw.batch, fw.reqs, 2) # Sampled(fw.alone[2], <<fw.reqs[2]>>, 1)

(***************************************************************************)
(* The window of a submitted cache (SpecWindow).                           *)
(***************************************************************************)
\* the positions of task t's cache that the forward has to hold
Retained(t) == Len(tasks[t].cache.tokens) - tasks[t].cache.start

\* C27: sliding window. For a session whose token list has max_seq_len + k
\* tokens (k >= 0), chat() produces tokens without an out-of-range access or
\* a panic, and by the time its task is forwarded the start of the cache has
\* advanced by at least k: at most max_seq_len positions are retained.
C27_SlidWhenForwarded ==
    /\ panic # "forward out of range"
    /\ \A t \in SeqToSet(batch) :
          (tasks[t].rx /\ tasks[t].cache.some) => Retained(t) <= MaxSeqLen

\* chat() has submitted a cache of max_seq_len + 1 tokens with start still 0
C27_LongSubmitted ==
    \E t \in SeqToSet(queue) :
        /\ tasks[t].cache.some
        /\ Len(tasks[t].cache.tokens) = MaxSeqLen + 1
        /\ tasks[t].cache.start = 0

(***************************************************************************)
(* Tokens of an iteration whose forward takes part of a prompt             *)
(* (SpecPrefill).                                                          *)
(***************************************************************************)
\* the range forwarded for t in this step ends where its token list ended
ReachedEnd(t) ==
    tasks'[t].cache.end - tasks'[t].cache.start = Len(tasks[t].cache.tokens)

\* tokens sent to t in this step
Got(t) == Len(sent'[t]) - Len(sent[t])

C28_TokenIffReached ==
    WorkerStepStep =>
        \A t \in Participating :
            /\ Got(t) \in {0, 1}
            /\ Got(t) = 1 => ReachedEnd(t)
            \* the token sampled for a caught-up task is delivered, or it is
            \* EOS and ends the stream
            /\ ReachedEnd(t) => (Got(t) = 1 \/ t \notin SeqToSet(queue'))
            /\ Got(t) = 1 =>
                  \E tok \in Vocab :
                      /\ tasks'[t].chan = Append(tasks[t].chan, tok)
                      /\ tasks'[t].cache.tokens = Append(tasks[t].cache.tokens, tok)
                      /\ sent'[t] = Append(sent[t], tok)
            /\ ~ReachedEnd(t) =>
                  /\ Got(t) = 0
                  /\ tasks'[t].chan = tasks[t].chan
                  /\ tasks'[t].cache.tokens = tasks[t].cache.tokens
                  /\ t \in SeqToSet(queue')

\* C28: in every dispatcher iteration a task is given a newly sampled token
\* if and only if the range forwarded for it in that iteration reaches the
\* end of its token list (num_decode = 1 when range.end = len(tokens), else
\* 0): a task whose prompt is only partly prefilled receives no token in that
\* iteration and stays with the worker, while the caught-up tasks of the
\* same batch each receive exactly one.
C28_Theorem == [][C28_TokenIffReached]_vars

\* after one iteration over a batch of two, one task has its first token and
\* the other, half-way through its prompt, has none and waits for the next
\* iteration (a second iteration would have finished the prompt)
C28_Witness ==
    \E t, u \in SeqToSet(queue) :
        /\ t # u
        /\ tasks[t].cache.end > 0
        /\ tasks[t].cache.end < Len(tasks[t].cache.tokens)
        /\ sent[t] = <<>>
        /\ tasks[t].cache.tokens \in Tokenized
        /\ Len(sent[u]) = 1
        /\ tasks[u].cache.end = Len(tasks[u].cache.tokens) - 1

(***************************************************************************)
(* What topk writes (SpecTopk).                                            *)
(***************************************************************************)
\* the entry of row i that the j-th index written for it names
Selected(i, j) == tk.rows[i][tk.indices[i][j] + 1]

C29_TopOfEveryRow ==
    tk.pc = "done" =>
        \A i \in 1..Len(tk.rows) :
            LET w == tk.weights[i]
                ix == tk.indices[i]
            IN /\ Len(w) = tk.k /\ Len(ix) = tk.k
               /\ \A j \in 1..tk.k : ix[j] \in 0..(Len(tk.rows[i]) - 1)
               /\ \A j \in 1..tk.k : Selected(i, j) = w[j]
               /\ \A j, m \in 1..tk.k : j < m => (w[j] >= w[m] /\ ix[j] # ix[m])
               /\ \A e \in 1..Len(tk.rows[i]) :
                     (\A j \in 1..tk.k : ix[j] # e - 1) =>
                         \A j \in 1..tk.k : tk.rows[i][e] <= w[j]

C29_TestTopk ==
    (tk.pc = "done" /\ tk.rows = TestRoutes /\ tk.k = 2) =>
        /\ tk.weights = << <<2, 1>>, <<4, 3>> >>
        /\ tk.indices = << <<1, 6>>, <<4, 0>> >>

\* C29: MoE top-k. For every row of the routing matrix and every k not
\* larger than the row length, topk writes k weights in non-increasing order
\* that are the k largest entries of the row, with k pairwise distinct
\* indices such that row[indices[j]] = weights[j]; every entry not selected
\* is at most the smallest selected weight. For the rows [0,2,0,0,0,0,1,0]
\* and [3,0,0,0,4,0,0,0] with k = 2 the weights are [2,1], [4,3] and the
\* indices [1,6], [4,0].
C29_Theorem == C29_TopOfEveryRow /\ C29_TestTopk

\* topk chose among tied entries: one of two equal largest entries of a row
\* was selected and the other one left out
C29_Witness ==
    /\ tk.pc = "done" /\ tk.k >= 1
    /\ \E i \in 1..Len(tk.rows) :
          \E e \in 1..Len(tk.rows[i]) :
              /\ \A j \in 1..tk.k : tk.indices[i][j] # e - 1
              /\ tk.rows[i][e] = tk.weights[i][tk.k]
              /\ tk.k < Len(tk.rows[i])

(***************************************************************************)
(* The rows of x1 the attention loop writes (SpecForward).                 *)
(***************************************************************************)
\* the writes <<layer, request, rows>> of the attention loops of the batched
\* forward, in order
Writes == {fw.batch.wrote[k] : k \in 1..Len(fw.batch.wrote)}

\* every request with a cache wrote, in every layer, its own rows and no others
C30_WritesOwnRows ==
    /\ \A w \in Writes : w[3] = OwnRows(fw.reqs, w[2])
    /\ \A l \in Layers, i \in 1..Len(fw.reqs) :
          fw.reqs[i].cached => <<l, i, OwnRows(fw.reqs, i)>> \in Writes

\* after the loop of every layer the rows of a request hold the attention
\* result the request has when it is forwarded alone
C30_RowsHoldOwnResult ==
    Compared =>
        \A l \in Layers, i \in 1..Len(fw.reqs) :
            \A j \in 1..SeqLenOf(fw.reqs[i]) :
                fw.batch.att[l][RowsBefore(fw.reqs, i) + j] = fw.alone[i].att[l][j]

\* C30: in a forward over a batch of several requests the attention result
\* of request i is written to exactly the rows of x1 that belong to request
\* i, rows [sum of seq_len before i, sum of seq_len up to i), and the rows of
\* every other request are left as that request's own attention result: no
\* request's output overwrites another's. For MixtralCPU::forward and for
\* Transformer::update.
C30_OwnRowsOnly ==
    fw.batch # NoResult =>
        /\ fw.batch.status = "ok"
        /\ C30_WritesOwnRows
        /\ C30_RowsHoldOwnResult

\* the part of C30 that is about MixtralCPU::forward
C30_MixtralOwnRows ==
    (fw.batch # NoResult /\ fw.impl = "mixtral") =>
        /\ fw.batch.status = "ok"
        /\ C30_WritesOwnRows
        /\ C30_RowsHoldOwnResult

\* in update the second request of a batch wrote its attention result over
\* rows of the first
C30_Overwritten ==
    /\ fw.impl = "transformer-cpu" /\ fw.batch.status = "ok"
    /\ \E w \in Writes :
          /\ w[2] = 2
          /\ w[3] # OwnRows(fw.reqs, 2)
          /\ w[3] \cap OwnRows(fw.reqs, 1) # {}

(***************************************************************************)
(* C31: for every request i of a forward and every layer, the pass writes  *)
(* keys and values only at the positions [pos_i, pos_i + seq_len_i) of     *)
(* request i's own cache and attends over the positions                    *)
(* [0, pos_i + seq_len_i) of it: the positions below pos_i, those at or    *)
(* above pos_i + seq_len_i and the caches of requests without a cache are  *)
(* as they were before the pass, and what the pass computes does not       *)
(* depend on what the cache holds at or above pos_i + seq_len_i.           *)
(***************************************************************************)
\* the request with everything at or above its pos cleared from its cache
Scrubbed(r) ==
    [r EXCEPT !.kv = [l \in Layers |->
                         [p \in 1..MaxSeqLen |-> IF p <= r.pos THEN r.kv[l][p] ELSE Blank]]]
ScrubbedReqs == [i \in 1..Len(fw.reqs) |-> Scrubbed(fw.reqs[i])]
\* the same pass over the scrubbed requests
ScrubbedPass ==
    IF fw.impl = "mixtral" THEN MixForward(ScrubbedReqs)
    ELSE Update(ScrubbedReqs, fw.batch.status = "panic")

C31_WritesOwnRange ==
    fw.batch # NoResult =>
        \A i \in 1..Len(fw.reqs) : \A l \in Layers : \A p \in 1..MaxSeqLen :
            LET r == fw.reqs[i]
            IN (~r.cached \/ p <= r.pos \/ p > AttLenOf(r))
                  => fw.batch.kv[i][l][p] = r.kv[l][p]

C31_ReadsUpToAttLen ==
    fw.batch # NoResult =>
        /\ fw.batch.x = ScrubbedPass.x
        /\ fw.batch.att = ScrubbedPass.att
        /\ \A i \in 1..Len(fw.reqs) : \A l \in Layers : \A p \in 1..MaxSeqLen :
              (fw.batch.status = "ok" /\ fw.reqs[i].cached /\ p <= AttLenOf(fw.reqs[i]))
                  => fw.batch.kv[i][l][p] = ScrubbedPass.kv[i][l][p]

C31_KvFrame == C31_WritesOwnRange /\ C31_ReadsUpToAttLen

\* a pass over two requests with a cache went through; one of them has
\* cached tokens below its pos and stale entries above its range
C31_StaleBatch ==
    /\ fw.batch.status = "ok"
    /\ Len(fw.reqs) = 2
    /\ \A i \in 1..2 : fw.reqs[i].cached /\ SeqLenOf(fw.reqs[i]) > 0
    /\ \E i \in 1..2 :
          /\ fw.reqs[i].pos = 1
          /\ fw.reqs[i].kv[1][AttLenOf(fw.reqs[i]) + 1] # Blank
          /\ fw.batch.kv[i][1][AttLenOf(fw.reqs[i])] # fw.reqs[i].kv[1][AttLenOf(fw.reqs[i])]

(***************************************************************************)
(* C32: sample returns exactly as many tokens as the requests' num_decode  *)
(* add up to, ordered by request, and the tokens of request i are sampled  *)
(* from the logits of request i's own last num_decode_i rows with request  *)
(* i's own SampleArgs, so a task that decodes one token gets the token of  *)
(* its own last row; with no request to decode, decode gives a tensor of   *)
(* no rows and sample no token.                                            *)
(***************************************************************************)
NumDecoded == NumDecodeBefore(dc.metas, Len(dc.metas) + 1)

C32_LogitsRows ==
    dc.pc \in {"decoded", "sampled"} =>
        /\ Len(dc.logits) = NumDecoded
        /\ NumDecoded = 0 => dc.logits = <<>>

C32_OwnRowOwnArgs ==
    dc.pc = "sampled" =>
        /\ Len(dc.tokens) = NumDecoded
        /\ \A i \in 1..Len(dc.metas) : \A j \in 1..dc.metas[i].num_decode :
              LET m == dc.metas[i]
                  row == NumQueryBefore(dc.metas, i) + m.num_query - m.num_decode + j
              IN dc.tokens[NumDecodeBefore(dc.metas, i) + j]
                    = KernelSample(m.args, LmHead(dc.hidden[row]))
        /\ NumDecoded = 0 => dc.tokens = <<>>

C32_TokenRouting == C32_LogitsRows /\ C32_OwnRowOwnArgs

\* two requests with different SampleArgs, the first still in its prefill
\* of two rows with one to decode, have been sampled: two tokens, and a
\* different request's row or arguments would have given another token
C32_TwoRequestsSampled ==
    /\ dc.pc = "sampled"
    /\ Len(dc.metas) = 2
    /\ dc.metas[1].num_query = 2 /\ dc.metas[1].num_decode = 1
    /\ dc.metas[2].num_decode = 1
    /\ dc.metas[1].args # dc.metas[2].args
    /\ Len(dc.tokens) = 2
    /\ dc.tokens[2] # KernelSample(dc.metas[1].args, LmHead(dc.hidden[3]))
    /\ dc.tokens[1] # KernelSample(dc.metas[1].args, LmHead(dc.hidden[1]))

(***************************************************************************)
(* C33: dialog parity. In every session the sentences at even (0-based)    *)
(* indices of the dialog are prompts pushed by extend and the sentences at *)
(* odd indices are generated ones pushed by restore_cache, whatever        *)
(* extend, chat, drop of the BusySession and revert were called.           *)
(***************************************************************************)
\* restore_cache closes every sentence it pushes with the end token, which
\* no tokenized message holds
Generated(sentence) == sentence # <<>> /\ sentence[Len(sentence)] = Eos

C33_DialogParity ==
    \A s \in SessionIds :
        sessions[s].live =>
            \A k \in 1..Len(sessions[s].dialog) :
                Generated(sessions[s].dialog[k]) <=> (k - 1) % 2 = 1

\* an idle session that has been through a chat (the one KV tensor allocated
\* is its own, the one task submitted its chat) and whose dialog holds two
\* prompts in a row
C33_PromptAtOddIndex ==
    /\ panic = "none"
    /\ Idle(1)
    /\ nextTask = 1 /\ nextKv = 1
    /\ Len(sessions[1].dialog) = 2
    /\ ~Generated(sessions[1].dialog[1])
    /\ ~Generated(sessions[1].dialog[2])

(***************************************************************************)
(* C34: Cache::extend and Cache::push only append to the token list. The   *)
(* window [start, end) of positions whose keys and values a forward has    *)
(* computed is left as it was, and its end is advanced by the worker's     *)
(* forward only; the position Cache::end() reports, which Session::extend  *)
(* and restore_cache compare with dialog.num_tokens(), is the extent of    *)
(* the token list and grows by the number of tokens appended.              *)
(***************************************************************************)
\* a step in which extend pushed messages to idle session s
ExtendedStep(s) ==
    /\ Idle(s) /\ sessions'[s].live /\ sessions'[s].busy = 0
    /\ Len(sessions'[s].dialog) > Len(sessions[s].dialog)
\* the tokens of the sentences the step pushed
PushedTokens(s) ==
    Flatten(SubSeq(sessions'[s].dialog, Len(sessions[s].dialog) + 1,
                   Len(sessions'[s].dialog)))
\* a step in which the BusySession of s is dropped
DropBusyStep(s) == Busy(s) /\ sessions'[s].live /\ sessions'[s].busy = 0

C34_ExtendAppends(s) ==
    ExtendedStep(s) =>
        LET c == sessions[s].cache
            d == sessions'[s].cache
        IN /\ d.some
           /\ d.start = (IF c.some THEN c.start ELSE 0)
           /\ d.end = (IF c.some THEN c.end ELSE 0)
           /\ d.tokens = c.tokens \o PushedTokens(s)
           /\ CacheEnd(d) = CacheEnd(c) + Len(PushedTokens(s))
           /\ c.some => (d.kv = c.kv /\ kvmem'[c.kv] = kvmem[c.kv])

C34_PushAppends(s) ==
    DropBusyStep(s) =>
        LET c == tasks[sessions[s].busy].cache
            d == sessions'[s].cache
        IN /\ d.start = c.start /\ d.end = c.end /\ d.kv = c.kv
           /\ \/ d.tokens = c.tokens
              \/ d.tokens = Append(c.tokens, Eos)

\* the end of the window of the cache that owns tensor k, 0 if there is none
WindowEnd(ss, ts, k) ==
    LET held == {c \in {ss[s].cache : s \in SessionIds} \cup {ts[t].cache : t \in TaskIds} :
                    c.some /\ c.kv = k}
    IN IF held = {} THEN 0 ELSE (CHOOSE c \in held : TRUE).end

C34_ForwardAdvances ==
    (\E k \in KvIds : WindowEnd(sessions', tasks', k) > WindowEnd(sessions, tasks, k))
        => WorkerStepStep

Smaller(a, b) == IF a < b THEN a ELSE b
\* what stays computed if the cache is only rolled back to n tokens
KeptLen(c, n) == Smaller(c.end, n) - c.start

C35_Reverted(s) ==
    RevertStep(s) =>
        LET c == sessions[s].cache
            d == sessions'[s].dialog
            e == sessions'[s].cache
            n == DialogNumTokens(d)
        IN /\ d = SubSeq(sessions[s].dialog, 1, Len(d))
           /\ e.some /\ e.kv = c.kv /\ kvmem' = kvmem
           /\ e.tokens = Flatten(d)
           /\ CacheEnd(e) = n
           /\ e.start = c.start
           /\ IF n < c.start \/ KeptLen(c, n) < DialogLastPromptLen(d)
              THEN e.end = e.start
              ELSE e.end = Smaller(c.end, n)

QueryPos(t) == CacheCachedLen(tasks[t].cache)
QuerySeqLen(t) == Len(QueryTokens(tasks[t].cache))

C37_QueriesFit ==
    wpc = "step" =>
        \A t \in SeqToSet(batch) :
            (tasks[t].rx /\ tasks[t].cache.some)
                => QueryPos(t) + QuerySeqLen(t) <= MaxSeqLen

\* the worker holds a batch whose task brings max_seq_len + 1 tokens at
\* position 0 to the next forward
C37_LongQueryInBatch ==
    /\ wpc = "step" /\ panic = "none"
    /\ \E t \in SeqToSet(batch) :
          /\ tasks[t].rx /\ tasks[t].cache.some
          /\ QueryPos(t) = 0
          /\ QuerySeqLen(t) = MaxSeqLen + 1

(***************************************************************************)
(* C38: the dispatcher is stopped exactly once, by the drop of the last    *)
(* holder of the ServiceComponent (the Service, a Session, a Generator)    *)
(* and by nothing else. While a Session or a Generator exists the batcher  *)
(* is alive, every chat() submission is stored in it, and the drop of the  *)
(* Service leaves the stream of an existing BusySession as it is: a stream *)
(* that closes while its session is busy was closed by the worker.         *)
(***************************************************************************)
\* someone holds the component: the Service, a Session or a Generator
Held(svc, ss, gs) ==
    svc \/ (\E s \in SessionIds : ss[s].live) \/ (\E g \in GenIds : gs[g] # 0)
\* a step in which handle.stop() was called
StopStep == alive /\ ~alive'

C38_StoppedByLastHolder ==
    /\ StopStep => (Held(service, sessions, gens) /\ ~Held(service', sessions', gens'))
    /\ ~Held(service', sessions', gens') => ~alive'
    /\ ~alive => (~alive' /\ ~Held(service', sessions', gens'))

C38_AliveWhileHeld == Held(service, sessions, gens) => alive

C38_SubmissionStored ==
    nextTask' = nextTask + 1 => nextTask' \in SeqToSet(queue')

C38_StreamNotCut ==
    /\ (service /\ ~service') =>
          \A s \in SessionIds :
              Busy(s) => /\ Busy(s)' /\ alive'
                         /\ tasks' = tasks /\ queue' = queue /\ batch' = batch
    /\ \A s \in SessionIds :
          (Busy(s) /\ Busy(s)' /\ TxOpen(sessions[s].busy) /\ ~TxOpen(sessions[s].busy)')
              => WorkerStepStep

C38_StoppedOnce ==
    /\ []C38_AliveWhileHeld
    /\ [][C38_StoppedByLastHolder]_vars
    /\ [][C38_SubmissionStored]_vars
    /\ [][C38_StreamNotCut]_vars

\* the Service has been dropped while a BusySession is in the middle of its
\* stream, and the batcher is alive
C38_ServiceGoneStreamOn ==
    /\ ~service /\ alive /\ panic = "none"
    /\ Busy(1)
    /\ sent[sessions[1].busy] # <<>>
    /\ TxOpen(sessions[1].busy)

(***************************************************************************)
(* C39: the tokens decode() has returned to the caller of a BusySession    *)
(* before it is dropped are, in order, a prefix of the sentence the drop   *)
(* pushes to the dialog: that sentence is those tokens, then the generated *)
(* tokens the caller had not read yet, then one end token. No token shown  *)
(* to the caller is missing from the dialog or out of order in it.         *)
(***************************************************************************)
C39_Recorded(s) ==
    DropStep(s) =>
        LET t == sessions[s].busy
            got == recv[t]
            unread == tasks[t].chan
            d == sessions'[s].dialog
        IN got \o unread # <<>> =>
              /\ Len(d) = Len(sessions[s].dialog) + 1
              /\ SubSeq(d, 1, Len(d) - 1) = sessions[s].dialog
              /\ IsPrefix(got, d[Len(d)])
              /\ d[Len(d)] = got \o unread \o <<Eos>>
              /\ sessions'[s].cache.tokens = Flatten(d)

C39_ShownIsRecorded == [][\A s \in SessionIds : C39_Recorded(s)]_vars

\* a BusySession whose caller has read the first of two different generated
\* tokens; dropping it now records both, in order, and the end token
C39_ReadOneOfTwo ==
    /\ Busy(1) /\ panic = "none"
    /\ LET t == sessions[1].busy
       IN /\ recv[t] = <<1>>
          /\ tasks[t].chan = <<2>>
          /\ Len(sessions[1].dialog) = 1
          /\ RestoreCache(sessions[1], tasks[t].cache).dialog[2] = <<1, 2, Eos>>

(***************************************************************************)
(* C40: in the chat REPL, whatever /create, /fork, /switch and /drop       *)
(* commands and inputs are typed, the id /create or /fork gives a new      *)
(* session is never the id of a registered session (no insert replaces a   *)
(* live session), and whenever a command or an inference runs, current is  *)
(* the id of a registered session: no unwrap or assert on it fails.        *)
(***************************************************************************)
C40_NeverReplaces == ~repl.reused

C40_CurrentExists ==
    /\ repl.pc = "prompt" => repl.current \in repl.ids
    /\ repl.pc # "panic"

\* every registered id is below next_id by the time a command can run
C40_FreshIds ==
    repl.pc = "prompt" => (\A id \in repl.ids : id < repl.next_id)

C40_Registry == C40_NeverReplaces /\ C40_CurrentExists /\ C40_FreshIds

\* the prompt after the last session was dropped and the registry refilled
\* under the dropped session's id, with a higher id handed out before
C40_Refilled ==
    /\ repl.pc = "prompt"
    /\ repl.ids = {1}
    /\ repl.current = 1
    /\ repl.next_id = 3

====
